---- MODULE Spec2Model ----
(***************************************************************************)
(* Electronics inventory system: the order-conflict model                  *)
(* (contracts/models.py), the inventory store (MongoInventoryRepo,         *)
(* contracts/repos.py) and the import/merge engine                         *)
(* (logic/importer/merge.py).                                              *)
(*                                                                         *)
(* Python's Optional[T] is modelled as a sequence: None is <<>> and a      *)
(* present value v is <<v>>.  Strings whose characters matter              *)
(* (manufacturer fields) are sequences of one-character strings.           *)
(***************************************************************************)
EXTENDS Integers, Sequences, FiniteSets, TLC

VARIABLES
    items,      \* the inventory collection: item id -> stored item
    config,     \* Optional value of the STRICT_ORDER_MATCHING key
    last,       \* the last call: its name, the exception it raised, what it returned
    imported,   \* Optional import record: one that merge_and_import_item accepted earlier
    calls,      \* merge_and_import_item executions in progress: process -> frame
    arg_a,      \* order-model calls: the receiver (self)
    arg_b,      \* order-model calls: the argument (other)
    ret         \* order-model calls: the call made and what it returned

vars == <<items, config, last, imported, calls, arg_a, arg_b, ret>>

None == <<>>
Some(v) == <<v>>

\* Python truthiness of an Optional[str]: None and "" are falsy.
TruthyStr(x) == x /= None /\ x[1] /= ""
\* Python truthiness of an Optional[int]: None and 0 are falsy.
TruthyInt(x) == x /= None /\ x[1] /= 0
\* Python `x or y` on Optional[str] / Optional[int].
OrStr(x, y) == IF TruthyStr(x) THEN x ELSE y
OrInt(x, y) == IF TruthyInt(x) THEN x ELSE y

(***************************************************************************)
(* ProductOrderInfo                                                        *)
(***************************************************************************)

\* conflicts_with without the test that other's lot code is set.
ConflictsWithDropsOtherNoneCheck(self, other) ==
    \/ (self.sales_order_id /= other.sales_order_id
            /\ self.sales_order_id /= None /\ other.sales_order_id /= None)
    \/ (self.invoice_id /= other.invoice_id
            /\ self.invoice_id /= None /\ other.invoice_id /= None)
    \/ (self.country_of_origin /= other.country_of_origin
            /\ self.country_of_origin /= None /\ other.country_of_origin /= None)
    \/ self.quantity /= other.quantity
    \/ (self.lot_code /= other.lot_code /\ self.lot_code /= None)

conflicts_with(self, other) ==
    \/ (self.sales_order_id /= other.sales_order_id
            /\ self.sales_order_id /= None /\ other.sales_order_id /= None)
    \/ (self.invoice_id /= other.invoice_id
            /\ self.invoice_id /= None /\ other.invoice_id /= None)
    \/ (self.country_of_origin /= other.country_of_origin
            /\ self.country_of_origin /= None /\ other.country_of_origin /= None)
    \/ self.quantity /= other.quantity
    \/ (self.lot_code /= other.lot_code
            /\ self.lot_code /= None /\ other.lot_code /= None)

\* What a call returns: either it raised (exc holds the exception's type and
\* constructor arguments) or it returned val.
Raise(type, args) == [exc |-> Some([type |-> type, args |-> args]), val |-> None]
Return(v) == [exc |-> None, val |-> Some(v)]

MergedOrder(self, other) ==
    [product_description |-> OrStr(self.product_description, other.product_description),
     quantity            |-> self.quantity,
     sales_order_id      |-> OrInt(self.sales_order_id, other.sales_order_id),
     invoice_id          |-> OrInt(self.invoice_id, other.invoice_id),
     country_of_origin   |-> OrStr(self.country_of_origin, other.country_of_origin),
     lot_code            |-> OrStr(self.lot_code, other.lot_code),
     conflicts           |-> FALSE]

\* merge that lets two orders of different quantity through.
MergeIgnoresQuantityConflict(self, other) ==
    IF conflicts_with(self, other) /\ self.quantity = other.quantity
    THEN Raise("ValueError", <<"Cannot merge conflicting ProductOrderInfo">>)
    ELSE Return(MergedOrder(self, other))

merge(self, other) ==
    IF conflicts_with(self, other)
    THEN Raise("ValueError", <<"Cannot merge conflicting ProductOrderInfo">>)
    ELSE Return(MergedOrder(self, other))

(***************************************************************************)
(* Strings as character sequences (util.relatively_similar,                *)
(* ConfigRepository.get_as_bool)                                           *)
(***************************************************************************)

UpperCase == {"A", "B", "C", "E", "N", "O", "S", "T", "Y"}
LowerCase == {"a", "b", "c", "e", "m", "n", "o", "s", "t", "y", "x"}
Digits == {"0", "1", "2"}
WhiteSpace == {" "}

\* str.lower() on one character.
LowerChar(c) ==
    CASE c = "A" -> "a" [] c = "B" -> "b" [] c = "C" -> "c" [] c = "E" -> "e"
      [] c = "N" -> "n" [] c = "O" -> "o" [] c = "S" -> "s" [] c = "T" -> "t"
      [] c = "Y" -> "y" [] OTHER -> c

lower(s) == [i \in 1..Len(s) |-> LowerChar(s[i])]

RECURSIVE lstrip(_)
lstrip(s) == IF s /= <<>> /\ Head(s) \in WhiteSpace THEN lstrip(Tail(s)) ELSE s

RECURSIVE rstrip(_)
rstrip(s) ==
    IF s /= <<>> /\ s[Len(s)] \in WhiteSpace
    THEN rstrip(SubSeq(s, 1, Len(s) - 1))
    ELSE s

strip(s) == rstrip(lstrip(s))

\* The length of the first word of t, which starts with a non-blank.
FirstWordLen(t) ==
    CHOOSE n \in 1..Len(t) :
        /\ \A j \in 1..n : t[j] \notin WhiteSpace
        /\ (n = Len(t) \/ t[n + 1] \in WhiteSpace)

\* str.split(): the maximal runs of non-blank characters.
RECURSIVE split(_)
split(s) ==
    LET t == lstrip(s) IN
    IF t = <<>> THEN <<>>
    ELSE <<SubSeq(t, 1, FirstWordLen(t))>>
            \o split(SubSeq(t, FirstWordLen(t) + 1, Len(t)))

\* " ".join(words)
RECURSIVE join_space(_)
join_space(words) ==
    IF words = <<>> THEN <<>>
    ELSE IF Len(words) = 1 THEN words[1]
    ELSE words[1] \o <<" ">> \o join_space(Tail(words))

\* str.isalnum() on one character.
isalnum(c) == c \in UpperCase \cup LowerCase \cup Digits

\* "".join(c for c in s if c.isalnum() or c == " ")
RECURSIVE KeepAlnumAndSpace(_)
KeepAlnumAndSpace(s) ==
    IF s = <<>> THEN <<>>
    ELSE IF isalnum(Head(s)) \/ Head(s) = " "
         THEN <<Head(s)>> \o KeepAlnumAndSpace(Tail(s))
         ELSE KeepAlnumAndSpace(Tail(s))

\* The three normalisation steps relatively_similar applies to each string.
Normalized(s) == KeepAlnumAndSpace(join_space(split(strip(lower(s)))))

Max(x, y) == IF x >= y THEN x ELSE y

\* Length of a longest common subsequence.
RECURSIVE LCS(_, _)
LCS(a, b) ==
    IF a = <<>> \/ b = <<>> THEN 0
    ELSE IF Head(a) = Head(b) THEN 1 + LCS(Tail(a), Tail(b))
    ELSE Max(LCS(Tail(a), b), LCS(a, Tail(b)))

\* Levenshtein.ratio(a, b) >= 1/2.  The ratio is (|a| + |b| - d) / (|a| + |b|)
\* with d the edit distance in which a substitution costs 2, that is
\* 2 * LCS / (|a| + |b|), and 1 for two empty strings.
RatioAtLeastHalf(a, b) ==
    Len(a) + Len(b) = 0 \/ 4 * LCS(a, b) >= Len(a) + Len(b)

relatively_similar(a, b) == RatioAtLeastHalf(Normalized(a), Normalized(b))

(***************************************************************************)
(* ConfigRepository                                                        *)
(***************************************************************************)

\* get_as_bool(key, default) where cfg is the value stored under the key
\* (None when the key is missing) and default is not None.
get_as_bool(cfg, default) ==
    IF cfg = None THEN Return(default)
    ELSE LET val == strip(lower(cfg[1])) IN
         CASE val = <<"t", "r", "u", "e">> -> Return(TRUE)
           [] val = <<"f", "a", "l", "s", "e">> -> Return(FALSE)
           [] val = <<"y", "e", "s">> -> Return(TRUE)
           [] val = <<"n", "o">> -> Return(FALSE)
           [] val = <<"1">> -> Return(TRUE)
           [] val = <<"0">> -> Return(FALSE)
           [] OTHER -> Raise("ValueError", <<"Invalid boolean value">>)

(***************************************************************************)
(* The inventory collection (MongoInventoryRepo).  A stored document is    *)
(* the item as MongoExistingInventoryItem dumps it; every read maps the    *)
(* document back to an ExistingInventoryItem.                              *)
(***************************************************************************)

\* ProductOrderInfo -> MongoProductOrderInfo: the fields the Mongo model has.
OrderToDb(o) ==
    [product_description |-> o.product_description,
     quantity            |-> o.quantity,
     sales_order_id      |-> o.sales_order_id,
     invoice_id          |-> o.invoice_id,
     country_of_origin   |-> o.country_of_origin,
     lot_code            |-> o.lot_code]

\* MongoProductOrderInfo -> ProductOrderInfo: conflicts takes its default.
OrderFromDb(d) ==
    [product_description |-> d.product_description,
     quantity            |-> d.quantity,
     sales_order_id      |-> d.sales_order_id,
     invoice_id          |-> d.invoice_id,
     country_of_origin   |-> d.country_of_origin,
     lot_code            |-> d.lot_code,
     conflicts           |-> FALSE]

ToDb(item) ==
    [item EXCEPT !.digikey_orders =
        [i \in 1..Len(item.digikey_orders) |-> OrderToDb(item.digikey_orders[i])]]

FromDb(doc) ==
    [doc EXCEPT !.digikey_orders =
        [i \in 1..Len(doc.digikey_orders) |-> OrderFromDb(doc.digikey_orders[i])]]

\* ExistingInventoryItem.from_parent: a NewInventoryItem with its id.
WithId(item, id) ==
    [f \in DOMAIN item \cup {"id"} |-> IF f = "id" THEN id ELSE item[f]]

\* What a store call returns: the exception or value, and the collection after it.
StoreRaise(type, args, store) ==
    [exc |-> Some([type |-> type, args |-> args]), val |-> None, store |-> store]
StoreReturn(v, store) == [exc |-> None, val |-> v, store |-> store]

\* __getitem__: Optional item (None stands for KeyError).
GetItem(store, key) ==
    IF key \in DOMAIN store THEN Some(FromDb(store[key])) ELSE None

MinOf(S) == CHOOSE x \in S : \A y \in S : x <= y

\* find_one({"digikey_part_number": n}): the first matching document.
get_item_by_digikey_part_number(store, digikey_part_number) ==
    LET matches == {i \in DOMAIN store :
                        store[i].digikey_part_number = Some(digikey_part_number)}
    IN  IF matches = {} THEN None ELSE Some(FromDb(store[MinOf(matches)]))

\* set_existing_item without the lookup of the part number's owner.
SetExistingItemWithoutDuplicateCheck(store, item) ==
    IF item.id \notin DOMAIN store
    THEN StoreRaise("KeyError", <<item.id>>, store)
    ELSE StoreReturn(None, [store EXCEPT ![item.id] = ToDb(item)])

set_existing_item(store, item) ==
    LET possible_match ==
            IF item.digikey_part_number = None THEN None
            ELSE get_item_by_digikey_part_number(store, item.digikey_part_number[1])
    IN  IF possible_match /= None /\ possible_match[1].id /= item.id
        THEN StoreRaise("DuplicateDigiKeyPartNumberError",
                        <<Some(possible_match[1].id), Some(item.id)>>, store)
        ELSE IF item.id \notin DOMAIN store
        THEN StoreRaise("KeyError", <<item.id>>, store)
        ELSE StoreReturn(None, [store EXCEPT ![item.id] = ToDb(item)])

\* insert_one assigns the new document's _id.
NewId(store) == Cardinality(DOMAIN store) + 1

\* add_new that reports the id it would assign as the conflicting id.
AddNewReportsAssignedId(store, item) ==
    LET possible_match ==
            IF item.digikey_part_number = None THEN None
            ELSE get_item_by_digikey_part_number(store, item.digikey_part_number[1])
    IN  IF possible_match /= None
        THEN StoreRaise("DuplicateDigiKeyPartNumberError",
                        <<Some(possible_match[1].id), Some(NewId(store))>>, store)
        ELSE LET id == NewId(store) IN
             StoreReturn(Some(id),
                         [i \in DOMAIN store \cup {id} |->
                             IF i = id THEN ToDb(WithId(item, id)) ELSE store[i]])

\* CRUDRepository.add_new, which callers use, as MongoInventoryRepo implements
\* it under the name add_new_item.
add_new(store, item) ==
    LET possible_match ==
            IF item.digikey_part_number = None THEN None
            ELSE get_item_by_digikey_part_number(store, item.digikey_part_number[1])
    IN  IF possible_match /= None
        THEN StoreRaise("DuplicateDigiKeyPartNumberError",
                        <<Some(possible_match[1].id), None>>, store)
        ELSE LET id == NewId(store) IN
             StoreReturn(Some(id),
                         [i \in DOMAIN store \cup {id} |->
                             IF i = id THEN ToDb(WithId(item, id)) ELSE store[i]])

\* update_one({"_id": item_id}, {"$set": {"slot_ids.<slot_id>": None}})
add_to_slot(store, item_id, slot_id) ==
    IF item_id \notin DOMAIN store
    THEN StoreRaise("KeyError", <<item_id>>, store)
    ELSE StoreReturn(None,
            [store EXCEPT ![item_id].slot_ids = @ \cup {slot_id}])

remove_from_slot(store, item_id, slot_id) ==
    IF item_id \notin DOMAIN store
    THEN StoreRaise("KeyError", <<item_id>>, store)
    ELSE IF slot_id \notin store[item_id].slot_ids
    THEN StoreRaise("KeyError", <<item_id, slot_id>>, store)
    ELSE StoreReturn(None,
            [store EXCEPT ![item_id].slot_ids = @ \ {slot_id}])

\* get_slot that returns the empty list for a slot nothing is assigned to.
GetSlotReturnsEmptyList(store, slot_id) ==
    LET found == SelectSeq([i \in 1..Cardinality(DOMAIN store) |-> i],
                           LAMBDA i : slot_id \in store[i].slot_ids)
    IN  StoreReturn(Some([k \in 1..Len(found) |-> FromDb(store[found[k]])]), store)

\* find({"slot_ids.<slot_id>": {"$exists": True}}): the documents in the
\* collection's order, mapped to items; KeyError when there is none.
get_slot(store, slot_id) ==
    LET found == SelectSeq([i \in 1..Cardinality(DOMAIN store) |-> i],
                           LAMBDA i : slot_id \in store[i].slot_ids)
        output == [k \in 1..Len(found) |-> FromDb(store[found[k]])]
    IN  IF output = <<>>
        THEN StoreRaise("KeyError", <<slot_id>>, store)
        ELSE StoreReturn(Some(output), store)

\* InventoryRepository.set_comments (MongoInventoryRepo does not override it).
set_comments(store, id_, comments) ==
    IF GetItem(store, id_) = None
    THEN StoreRaise("KeyError", <<id_>>, store)
    ELSE set_existing_item(store, [GetItem(store, id_)[1] EXCEPT !.comments = comments])

\* InventoryRepository.set_quantity; available_quantity is a NonNegativeInt.
set_quantity(store, id_, quantity) ==
    IF GetItem(store, id_) = None
    THEN StoreRaise("KeyError", <<id_>>, store)
    ELSE IF quantity < 0
    THEN StoreRaise("ValidationError", <<quantity>>, store)
    ELSE set_existing_item(store,
            [GetItem(store, id_)[1] EXCEPT !.available_quantity = quantity])

\* InventoryRepository.set_product_details
set_product_details(store, id_, product_details) ==
    IF GetItem(store, id_) = None
    THEN StoreRaise("KeyError", <<id_>>, store)
    ELSE set_existing_item(store,
            [GetItem(store, id_)[1] EXCEPT !.product_details = Some(product_details)])

(***************************************************************************)
(* The merge engine (logic/importer)                                       *)
(***************************************************************************)

\* ots that yields the empty set for every value.
OtsDropsValue(val) == {}

\* util.ots: Optional to set.
ots(val) == IF val = None THEN {} ELSE {val[1]}

map_inv_item_import_to_inv_item(item) ==
    [available_quantity         |-> item.quantity,
     item_description           |-> item.item_description,
     is_description_placeholder |-> item.is_description_placeholder,
     digikey_orders             |-> IF item.digikey_order /= None
                                    THEN <<item.digikey_order[1]>> ELSE <<>>,
     digikey_barcode_2d         |-> IF TruthyStr(item.digikey_barcode_2d)
                                    THEN {item.digikey_barcode_2d[1]} ELSE {},
     digikey_barcode_1d         |-> IF TruthyStr(item.digikey_barcode_1d)
                                    THEN {item.digikey_barcode_1d[1]} ELSE {},
     digikey_part_number        |-> item.digikey_part_number,
     manufacturer_name          |-> item.manufacturer_name,
     manufacturer_part_number   |-> item.manufacturer_part_number,
     product_details            |-> item.product_details,
     slot_ids                   |-> {},
     comments                   |-> ""]

\* The loop of _merge_order_details from entry i on; acc holds the locals
\* ls, merge_result, found and conflicts (and exc, should order.merge raise).
RECURSIVE MergeOrderLoop(_, _, _, _)
MergeOrderLoop(existing, new, i, acc) ==
    IF i > Len(existing) THEN acc
    ELSE LET order == existing[i] IN
         IF order.invoice_id = new.invoice_id
         THEN IF conflicts_with(order, new)
              THEN MergeOrderLoop(existing, new, i + 1,
                       [acc EXCEPT !.conflicts = TRUE, !.ls = Append(@, order)])
              ELSE LET merged_new == merge(order, new) IN
                   IF merged_new.exc /= None
                   THEN [acc EXCEPT !.exc = merged_new.exc]
                   ELSE MergeOrderLoop(existing, new, i + 1,
                            [acc EXCEPT !.merge_result = "Duplicate",
                                        !.ls = Append(@, merged_new.val[1]),
                                        !.found = TRUE])
         ELSE MergeOrderLoop(existing, new, i + 1, [acc EXCEPT !.ls = Append(@, order)])

\* _merge_order_details that puts a new order in front of the history.
MergeOrderDetailsPrepends(existing, new) ==
    IF new = None
    THEN [exc |-> None, ls |-> existing, merge_result |-> "NoOrder"]
    ELSE LET acc == MergeOrderLoop(existing, new[1], 1,
                        [exc |-> None, ls |-> <<>>, merge_result |-> "New",
                         found |-> FALSE, conflicts |-> FALSE])
         IN  IF acc.exc /= None
             THEN [exc |-> acc.exc, ls |-> <<>>, merge_result |-> "New"]
             ELSE [exc |-> None,
                   ls |-> IF acc.found THEN acc.ls
                          ELSE <<[new[1] EXCEPT !.conflicts = acc.conflicts]>> \o acc.ls,
                   merge_result |-> acc.merge_result]

\* _merge_order_details that leaves the new order's conflicts flag as it came.
MergeOrderDetailsNeverFlags(existing, new) ==
    IF new = None
    THEN [exc |-> None, ls |-> existing, merge_result |-> "NoOrder"]
    ELSE LET acc == MergeOrderLoop(existing, new[1], 1,
                        [exc |-> None, ls |-> <<>>, merge_result |-> "New",
                         found |-> FALSE, conflicts |-> FALSE])
         IN  IF acc.exc /= None
             THEN [exc |-> acc.exc, ls |-> <<>>, merge_result |-> "New"]
             ELSE [exc |-> None,
                   ls |-> IF acc.found THEN acc.ls ELSE Append(acc.ls, new[1]),
                   merge_result |-> acc.merge_result]

\* _merge_order_details: [exc, ls, merge_result]
merge_order_details(existing, new) ==
    IF new = None
    THEN [exc |-> None, ls |-> existing, merge_result |-> "NoOrder"]
    ELSE LET acc == MergeOrderLoop(existing, new[1], 1,
                        [exc |-> None, ls |-> <<>>, merge_result |-> "New",
                         found |-> FALSE, conflicts |-> FALSE])
         IN  IF acc.exc /= None
             THEN [exc |-> acc.exc, ls |-> <<>>, merge_result |-> "New"]
             ELSE [exc |-> None,
                   ls |-> IF acc.found THEN acc.ls
                          ELSE Append(acc.ls, [new[1] EXCEPT !.conflicts = acc.conflicts]),
                   merge_result |-> acc.merge_result]

\* Python truthiness of an Optional[list]: None and [] are falsy.
TruthyList(x) == x /= None /\ x[1] /= <<>>

\* _merge_product_details on two Optional[DigiKeyProductDetails].
merge_product_details(existing, new) ==
    IF existing = None THEN new
    ELSE IF new = None THEN existing
    ELSE Some(
        [product_url          |-> IF TruthyStr(new[1].product_url)
                                  THEN new[1].product_url ELSE existing[1].product_url,
         datasheet_url        |-> IF TruthyStr(new[1].datasheet_url)
                                  THEN new[1].datasheet_url ELSE existing[1].datasheet_url,
         image_url            |-> IF TruthyStr(new[1].image_url)
                                  THEN new[1].image_url ELSE existing[1].image_url,
         detailed_description |-> IF TruthyStr(new[1].detailed_description)
                                  THEN new[1].detailed_description
                                  ELSE existing[1].detailed_description,
         product_warnings     |-> IF TruthyList(new[1].product_warnings)
                                  THEN new[1].product_warnings
                                  ELSE existing[1].product_warnings])

\* The match statement without its last case: two different values never raise.
ReconcileManufacturerInfoNeverRaises(existing_value, import_value) ==
    CASE existing_value = None /\ import_value = None -> Return(None)
      [] existing_value = None /\ import_value /= None -> Return(import_value)
      [] existing_value /= None /\ import_value = None -> Return(existing_value)
      [] OTHER -> Return(existing_value)

\* The match statement taking the import's spelling of two similar values.
ReconcileManufacturerInfoTakesImport(existing_value, import_value) ==
    CASE existing_value = None /\ import_value = None -> Return(None)
      [] existing_value = None /\ import_value /= None -> Return(import_value)
      [] existing_value /= None /\ import_value = None -> Return(existing_value)
      [] OTHER ->
            IF existing_value[1] = import_value[1]
               \/ relatively_similar(existing_value[1], import_value[1])
            THEN Return(import_value)
            ELSE Raise("ManufacturerInfoMismatchError",
                       <<existing_value[1], import_value[1]>>)

\* The match statement on (existing value, import value) of a manufacturer field.
ReconcileManufacturerInfo(existing_value, import_value) ==
    CASE existing_value = None /\ import_value = None -> Return(None)
      [] existing_value = None /\ import_value /= None -> Return(import_value)
      [] existing_value /= None /\ import_value = None -> Return(existing_value)
      [] OTHER ->
            IF existing_value[1] = import_value[1]
               \/ relatively_similar(existing_value[1], import_value[1])
            THEN Return(existing_value)
            ELSE Raise("ManufacturerInfoMismatchError",
                       <<existing_value[1], import_value[1]>>)

\* The strict-order-matching precondition without the invoice id test.
StrictOrderMatchingCheckSkipsInvoice(cfg, import_item) ==
    LET strict == get_as_bool(cfg, FALSE) IN
    IF strict.exc /= None THEN strict.exc
    ELSE IF ~strict.val[1] THEN None
    ELSE IF import_item.digikey_part_number = None
    THEN Some([type |-> "ValueError",
               args |-> <<"Cannot use strict order matching without a digikey part number">>])
    ELSE IF import_item.digikey_order = None
    THEN Some([type |-> "ValueError",
               args |-> <<"Cannot use strict order matching without an order">>])
    ELSE None

\* The strict-order-matching precondition: Optional exception.
StrictOrderMatchingCheck(cfg, import_item) ==
    LET strict == get_as_bool(cfg, FALSE) IN
    IF strict.exc /= None THEN strict.exc
    ELSE IF ~strict.val[1] THEN None
    ELSE IF import_item.digikey_part_number = None
    THEN Some([type |-> "ValueError",
               args |-> <<"Cannot use strict order matching without a digikey part number">>])
    ELSE IF import_item.digikey_order = None
    THEN Some([type |-> "ValueError",
               args |-> <<"Cannot use strict order matching without an order">>])
    ELSE IF import_item.digikey_order[1].invoice_id = None
    THEN Some([type |-> "ValueError",
               args |-> <<"Cannot use strict order matching without an invoice id">>])
    ELSE None

\* A call's outcome: the exception, the returned (id, MergeResult), the
\* collection afterwards, and the merged_item handed to set_existing_item.
ImportRaise(exc, store) ==
    [exc |-> exc, id |-> None, result |-> "", store |-> store, merged |-> None]

\* The merge that takes the import's description whatever the placeholder flag.
MergeIntoExistingOverwritesDescription(store, existing_item, import_item, mpn, name, orders) ==
    LET merge_result ==
            IF orders.merge_result = "Duplicate"
            THEN "DuplicateOrder" ELSE "NewItemMergedIntoExistingStock"
        merged_quantity ==
            IF orders.merge_result = "Duplicate"
            THEN existing_item.available_quantity
            ELSE existing_item.available_quantity + import_item.quantity
        merged_item ==
            [id                         |-> existing_item.id,
             available_quantity         |-> merged_quantity,
             item_description           |->
                import_item.item_description,
             is_description_placeholder |->
                existing_item.is_description_placeholder
                    /\ import_item.is_description_placeholder,
             slot_ids                   |-> existing_item.slot_ids,
             digikey_orders             |-> orders.ls,
             digikey_barcode_2d         |->
                existing_item.digikey_barcode_2d \cup ots(import_item.digikey_barcode_2d),
             digikey_barcode_1d         |->
                existing_item.digikey_barcode_1d \cup ots(import_item.digikey_barcode_1d),
             comments                   |-> existing_item.comments,
             digikey_part_number        |-> existing_item.digikey_part_number,
             manufacturer_part_number   |-> mpn,
             manufacturer_name          |-> name,
             product_details            |->
                merge_product_details(existing_item.product_details,
                                      import_item.product_details)]
        written == set_existing_item(store, merged_item)
    IN  IF written.exc /= None
        THEN ImportRaise(written.exc, written.store)
        ELSE [exc |-> None, id |-> Some(merged_item.id), result |-> merge_result,
              store |-> written.store, merged |-> Some(merged_item)]

\* The merge of import_item into existing_item, once the manufacturer fields
\* are reconciled and the order histories merged.
MergeIntoExisting(store, existing_item, import_item, mpn, name, orders) ==
    LET merge_result ==
            IF orders.merge_result = "Duplicate"
            THEN "DuplicateOrder" ELSE "NewItemMergedIntoExistingStock"
        merged_quantity ==
            IF orders.merge_result = "Duplicate"
            THEN existing_item.available_quantity
            ELSE existing_item.available_quantity + import_item.quantity
        merged_item ==
            [id                         |-> existing_item.id,
             available_quantity         |-> merged_quantity,
             item_description           |->
                IF existing_item.is_description_placeholder
                THEN import_item.item_description
                ELSE existing_item.item_description,
             is_description_placeholder |->
                existing_item.is_description_placeholder
                    /\ import_item.is_description_placeholder,
             slot_ids                   |-> existing_item.slot_ids,
             digikey_orders             |-> orders.ls,
             digikey_barcode_2d         |->
                existing_item.digikey_barcode_2d \cup ots(import_item.digikey_barcode_2d),
             digikey_barcode_1d         |->
                existing_item.digikey_barcode_1d \cup ots(import_item.digikey_barcode_1d),
             comments                   |-> existing_item.comments,
             digikey_part_number        |-> existing_item.digikey_part_number,
             manufacturer_part_number   |-> mpn,
             manufacturer_name          |-> name,
             product_details            |->
                merge_product_details(existing_item.product_details,
                                      import_item.product_details)]
        written == set_existing_item(store, merged_item)
    IN  IF written.exc /= None
        THEN ImportRaise(written.exc, written.store)
        ELSE [exc |-> None, id |-> Some(merged_item.id), result |-> merge_result,
              store |-> written.store, merged |-> Some(merged_item)]

\* The import of a new item that reports every new item as one without part number.
ImportNewWithoutResult(store, import_item, result) ==
    LET added == add_new(store, map_inv_item_import_to_inv_item(import_item)) IN
    IF added.exc /= None
    THEN ImportRaise(added.exc, added.store)
    ELSE [exc |-> None, id |-> added.val, result |-> "NewItemWithoutDigikeyNumber",
          store |-> added.store, merged |-> None]

\* The import of a new item that first adds a copy without part number.
ImportNewAddsTwice(store, import_item, result) ==
    LET mapped == map_inv_item_import_to_inv_item(import_item)
        copy == add_new(store, [mapped EXCEPT !.digikey_part_number = None])
        added == add_new(copy.store, mapped)
    IN  IF added.exc /= None
        THEN ImportRaise(added.exc, added.store)
        ELSE [exc |-> None, id |-> added.val, result |-> result,
              store |-> added.store, merged |-> None]

\* The import of a new item that leaves the record's order out of the history.
ImportNewWithoutOrder(store, import_item, result) ==
    LET added == add_new(store, map_inv_item_import_to_inv_item(
                                    [import_item EXCEPT !.digikey_order = None])) IN
    IF added.exc /= None
    THEN ImportRaise(added.exc, added.store)
    ELSE [exc |-> None, id |-> added.val, result |-> result,
          store |-> added.store, merged |-> None]

\* The import of a new item that returns the first id of the collection.
ImportNewReturnsFirstId(store, import_item, result) ==
    LET added == add_new(store, map_inv_item_import_to_inv_item(import_item)) IN
    IF added.exc /= None
    THEN ImportRaise(added.exc, added.store)
    ELSE [exc |-> None, id |-> Some(1), result |-> result,
          store |-> added.store, merged |-> None]

\* The import of a new item: add_new of the mapped record.
ImportNew(store, import_item, result) ==
    LET added == add_new(store, map_inv_item_import_to_inv_item(import_item)) IN
    IF added.exc /= None
    THEN ImportRaise(added.exc, added.store)
    ELSE [exc |-> None, id |-> added.val, result |-> result,
          store |-> added.store, merged |-> None]

merge_and_import_item(store, cfg, import_item) ==
    LET invalid == StrictOrderMatchingCheck(cfg, import_item) IN
    IF invalid /= None THEN ImportRaise(invalid, store)
    ELSE IF import_item.digikey_part_number = None
    THEN ImportNew(store, import_item, "NewItemWithoutDigikeyNumber")
    ELSE
    LET existing_item ==
            get_item_by_digikey_part_number(store, import_item.digikey_part_number[1])
    IN
    IF existing_item = None
    THEN ImportNew(store, import_item, "NewItemWithDigikeyNumber")
    ELSE
    LET mpn == ReconcileManufacturerInfo(existing_item[1].manufacturer_part_number,
                                         import_item.manufacturer_part_number)
        name == ReconcileManufacturerInfo(existing_item[1].manufacturer_name,
                                          import_item.manufacturer_name)
        orders == merge_order_details(existing_item[1].digikey_orders,
                                      import_item.digikey_order)
    IN
    IF mpn.exc /= None THEN ImportRaise(mpn.exc, store)
    ELSE IF name.exc /= None THEN ImportRaise(name.exc, store)
    ELSE IF orders.exc /= None THEN ImportRaise(orders.exc, store)
    ELSE MergeIntoExisting(store, existing_item[1], import_item,
                           mpn.val[1], name.val[1], orders)

(***************************************************************************)
(* Vendor product details (logic/details_update)                           *)
(***************************************************************************)

\* "".join(s): a character sequence as one string.
RECURSIVE Join(_)
Join(s) == IF s = <<>> THEN "" ELSE Head(s) \o Join(Tail(s))

\* Whether int(token) succeeds, for a token over digits, letters and brackets.
IsInt(token) == token /= <<>> /\ \A i \in 1..Len(token) : token[i] \in Digits

\* int(token) for a token of decimal digits.
RECURSIVE int(_)
int(token) ==
    LET c == token[Len(token)]
        value == CASE c = "0" -> 0 [] c = "1" -> 1 [] c = "2" -> 2
    IN  IF Len(token) = 1 THEN value
        ELSE 10 * int(SubSeq(token, 1, Len(token) - 1)) + value

\* str(n) for n >= 0.
RECURSIVE str(_)
str(n) ==
    LET digit == <<"0", "1", "2", "3", "4", "5", "6", "7", "8", "9">>[(n % 10) + 1]
    IN  IF n < 10 THEN digit ELSE str(n \div 10) \o digit

\* str.split(sep=None, maxsplit=1): no part for a blank string, one part for
\* a single word, else the first word and the rest without its leading
\* blanks (its trailing blanks stay).
split_once(s) ==
    LET t == lstrip(s) IN
    IF t = <<>> THEN <<>>
    ELSE LET first == SubSeq(t, 1, FirstWordLen(t))
             rest == lstrip(SubSeq(t, FirstWordLen(t) + 1, Len(t)))
         IN  IF rest = <<>> THEN <<first>> ELSE <<first, rest>>

\* str.strip(chars)
RECURSIVE strip_chars(_, _)
strip_chars(s, chars) ==
    IF s /= <<>> /\ Head(s) \in chars THEN strip_chars(Tail(s), chars)
    ELSE IF s /= <<>> /\ s[Len(s)] \in chars
         THEN strip_chars(SubSeq(s, 1, Len(s) - 1), chars)
         ELSE s

NotApplicable ==
    <<"n", "o", "t", " ", "a", "p", "p", "l", "i", "c", "a", "b", "l", "e">>

\* The warnings for Classifications.MoistureSensitivityLevel, a character
\* sequence: unpacking other than two parts, and int() of a first part that
\* is no number, raise the ValueError the handler turns into the warning
\* with the whole string.
MoistureWarnings(moisture) ==
    IF lower(moisture) = NotApplicable THEN <<>>
    ELSE LET parts == split_once(moisture) IN
         IF Len(parts) /= 2 \/ ~IsInt(parts[1])
         THEN <<"Moisture sensitivity level: " \o Join(moisture)>>
         ELSE IF int(parts[1]) = 0 \/ int(parts[1]) = 1 THEN <<>>
         ELSE <<"Moisture sensitivity level: " \o str(int(parts[1])) \o " - "
                    \o Join(strip_chars(parts[2], {"(", ")"}))>>

RohsWarnings(RohsStatus) ==
    IF RohsStatus = None THEN <<"No RoHS status">>
    ELSE IF RohsStatus[1] \in {"RoHS Compliant", "Not Applicable", "ROHS3 Compliant"}
    THEN <<>>
    ELSE IF RohsStatus[1] = "RoHS non-compliant" THEN <<"Not RoHS compliant">>
    ELSE IF RohsStatus[1] = "RoHS Compliant By Exemption"
    THEN <<"RoHS compliant by exemption">>
    ELSE <<"RoHS status: " \o RohsStatus[1]>>

\* refine_product_details on a raw product of the vendor's search API.
refine_product_details(product) ==
    LET stock == IF product.QuantityAvailable = None THEN <<>>
                 ELSE IF product.QuantityAvailable[1] < 1000 THEN <<"Low stock">>
                 ELSE IF product.QuantityAvailable[1] = 0 THEN <<"Sold out">>
                 ELSE <<>>
        status == IF product.ProductStatus /= None
                     /\ product.ProductStatus[1].Status /= "Active"
                  THEN <<"Product status: " \o product.ProductStatus[1].Status>>
                  ELSE <<>>
        stocking == IF product.NormallyStocking = Some(FALSE)
                    THEN <<"Not normally stocked">> ELSE <<>>
        discontinued == IF product.Discontinued = Some(TRUE)
                        THEN <<"Discontinued">> ELSE <<>>
        end_of_life == IF product.EndOfLife = Some(TRUE)
                       THEN <<"End of life">> ELSE <<>>
        classified ==
            IF product.Classifications = None THEN <<>>
            ELSE RohsWarnings(product.Classifications[1].RohsStatus)
                 \o (IF product.Classifications[1].MoistureSensitivityLevel = None
                     THEN <<>>
                     ELSE MoistureWarnings(
                            product.Classifications[1].MoistureSensitivityLevel[1]))
    IN  [product_url          |-> product.ProductUrl,
         datasheet_url        |-> product.DatasheetUrl,
         image_url            |-> product.PhotoUrl,
         detailed_description |-> IF product.Description /= None
                                  THEN product.Description[1].DetailedDescription
                                  ELSE None,
         product_warnings     |-> Some(stock \o status \o stocking \o discontinued
                                        \o end_of_life \o classified)]

(***************************************************************************)
(* Bounds and input domains                                                *)
(***************************************************************************)

MaxItems == 2      \* documents in the collection
MaxOrders == 2     \* entries in one item's order history
MaxStock == 2      \* an item's available_quantity

DigikeyPartNumbers == {"DK1", "DK2"}
SlotIds == {1}

\* Manufacturer strings: "Ab" and "ab." differ only in case and punctuation,
\* "cc" shares no character with them.
Ab == <<"A", "b">>
AbDot == <<"a", "b", ".">>
Cc == <<"c", "c">>

\* Values of the STRICT_ORDER_MATCHING key: unset, on, and not a boolean.
ConfigValues ==
    {None, Some(<<" ", "Y", "e", "s">>), Some(<<"m", "a", "y", "b", "e">>)}

Order(description, quantity, sales_order_id, invoice_id, country, lot_code) ==
    [product_description |-> description,
     quantity            |-> quantity,
     sales_order_id      |-> sales_order_id,
     invoice_id          |-> invoice_id,
     country_of_origin   |-> country,
     lot_code            |-> lot_code,
     conflicts           |-> FALSE]

ImportRecords(Quantities, Orders, PartNumbers, ManufacturerPartNumbers, Names, Placeholders) ==
    [quantity                   : Quantities,
     item_description           : {"imported"},
     is_description_placeholder : Placeholders,
     digikey_order              : Orders,
     digikey_barcode_2d         : {None},
     digikey_barcode_1d         : {None},
     digikey_part_number        : PartNumbers,
     manufacturer_part_number   : ManufacturerPartNumbers,
     manufacturer_name          : Names,
     product_details            : {None}]

\* NewInventoryItem values a caller hands to add_new / set_existing_item.
NewItems(PartNumbers) ==
    [available_quantity         : {0},
     item_description           : {"manual"},
     is_description_placeholder : {FALSE},
     slot_ids                   : {{}},
     digikey_orders             : {<<>>},
     digikey_barcode_2d         : {{}},
     digikey_barcode_1d         : {{}},
     comments                   : {""},
     digikey_part_number        : PartNumbers,
     manufacturer_part_number   : {None},
     manufacturer_name          : {None},
     product_details            : {None}]

OptionalPartNumbers == {None} \cup {Some(n) : n \in DigikeyPartNumbers}

ProductDetails1 ==
    [product_url |-> Some("url"), datasheet_url |-> None, image_url |-> None,
     detailed_description |-> Some("detail"), product_warnings |-> Some(<<"Low stock">>)]

\* The imports of the full specification: one shipment line for every part
\* number.
SpecImports ==
    ImportRecords({1},
                  {Some(Order(None, 1, None, Some(1), None, None))},
                  OptionalPartNumbers,
                  {None},
                  {None},
                  {FALSE})

WithinBounds(store) ==
    /\ Cardinality(DOMAIN store) <= MaxItems
    /\ \A i \in DOMAIN store :
        /\ store[i].available_quantity <= MaxStock
        /\ Len(store[i].digikey_orders) <= MaxOrders

(***************************************************************************)
(* State machine                                                           *)
(***************************************************************************)

\* The exception type of a call's outcome, "" when it raised nothing.
ExcType(exc) == IF exc = None THEN "" ELSE exc[1].type

NoCall == [op |-> "", exc |-> "", result |-> ""]
\* No execution in progress.
NoCalls == <<>>
NoOrderCall == [op |-> "", exc |-> None, val |-> None]
DefaultOrder == Order(None, 1, None, None, None, None)

EmptyStore == [i \in {} |-> i]

Init ==
    /\ items = EmptyStore
    /\ config = None
    /\ last = NoCall
    /\ imported = None
    /\ calls = NoCalls
    /\ arg_a = DefaultOrder
    /\ arg_b = DefaultOrder
    /\ ret = NoOrderCall

\* A call on the store: r is what the store operation returned.
StoreCall(op, r) ==
    /\ WithinBounds(r.store)
    /\ items' = r.store
    /\ last' = [op |-> op, exc |-> ExcType(r.exc), result |-> ""]
    /\ UNCHANGED <<config, imported, calls, arg_a, arg_b, ret>>

AddNew ==
    \E item \in NewItems(OptionalPartNumbers) :
        StoreCall("add_new", add_new(items, item))

SetExistingItem ==
    \E id \in 1..MaxItems, item \in NewItems(OptionalPartNumbers) :
        StoreCall("set_existing_item", set_existing_item(items, WithId(item, id)))

AddToSlot ==
    \E id \in 1..MaxItems, slot_id \in SlotIds :
        StoreCall("add_to_slot", add_to_slot(items, id, slot_id))

RemoveFromSlot ==
    \E id \in 1..MaxItems, slot_id \in SlotIds :
        StoreCall("remove_from_slot", remove_from_slot(items, id, slot_id))

SetComments ==
    \E id \in 1..MaxItems, comments \in {"note"} :
        StoreCall("set_comments", set_comments(items, id, comments))

SetQuantity ==
    \E id \in 1..MaxItems, quantity \in {-1, MaxStock} :
        StoreCall("set_quantity", set_quantity(items, id, quantity))

SetProductDetails ==
    \E id \in 1..MaxItems :
        StoreCall("set_product_details", set_product_details(items, id, ProductDetails1))

\* A call of merge_and_import_item with import_item.
ImportCall(import_item) ==
    LET r == merge_and_import_item(items, config, import_item) IN
    /\ WithinBounds(r.store)
    /\ items' = r.store
    /\ last' = [op |-> "merge_and_import_item", exc |-> ExcType(r.exc),
                result |-> r.result]
    /\ UNCHANGED <<config, calls, arg_a, arg_b, ret>>

MergeAndImportItem ==
    \E import_item \in SpecImports :
        ImportCall(import_item) /\ UNCHANGED imported

Next ==
    \/ AddNew
    \/ SetExistingItem
    \/ AddToSlot
    \/ RemoveFromSlot
    \/ SetComments
    \/ SetQuantity
    \/ SetProductDetails
    \/ MergeAndImportItem

Spec == Init /\ [][Next]_vars

(***************************************************************************)
(* The order model on its own: conflicts_with and merge applied to a pair  *)
(* of ProductOrderInfo values.                                             *)
(***************************************************************************)

OptionalStrings(Values) == {None, Some("")} \cup {Some(v) : v \in Values}
OptionalIds == {None, Some(1), Some(2)}

OrderValues ==
    [product_description : OptionalStrings({"part"}),
     quantity            : 1..2,
     sales_order_id      : OptionalIds,
     invoice_id          : OptionalIds,
     country_of_origin   : OptionalStrings({"US"}),
     lot_code            : OptionalStrings({"X"}),
     conflicts           : {FALSE}]

InitOrder ==
    /\ items = EmptyStore
    /\ config = None
    /\ last = NoCall
    /\ imported = None
    /\ calls = NoCalls
    /\ arg_a \in OrderValues
    /\ arg_b \in OrderValues
    /\ ret = NoOrderCall

CallConflictsWith ==
    /\ ret' = [op |-> "conflicts_with", exc |-> None,
               val |-> Some(conflicts_with(arg_a, arg_b))]
    /\ UNCHANGED <<items, config, last, imported, calls, arg_a, arg_b>>

CallMerge ==
    /\ ret' = [op |-> "merge", exc |-> merge(arg_a, arg_b).exc,
               val |-> merge(arg_a, arg_b).val]
    /\ UNCHANGED <<items, config, last, imported, calls, arg_a, arg_b>>

NextOrder == CallConflictsWith \/ CallMerge

SpecOrder == InitOrder /\ [][NextOrder]_vars

(***************************************************************************)
(* Properties of the order model (SpecOrder)                               *)
(***************************************************************************)

\* C7: a.merge(b) raises exactly when a.conflicts_with(b) is true, and
\* returns a ProductOrderInfo when it is false.
C7_MergeFailsIffConflicts ==
    ret.op = "merge" =>
        /\ (ret.exc /= None) <=> conflicts_with(arg_a, arg_b)
        /\ ~conflicts_with(arg_a, arg_b) => ret.val /= None
        /\ conflicts_with(arg_a, arg_b) => ret.val = None

\* A merge that raised although the two orders have the same quantity.
C7_Witness ==
    /\ ret.op = "merge"
    /\ ret.exc /= None
    /\ arg_a.quantity = arg_b.quantity

\* C8: conflicts_with gives the same answer with receiver and argument
\* exchanged, also when fields are None on one side only.
C8_ConflictsWithSymmetric ==
    ret.op = "conflicts_with" => ret.val = Some(conflicts_with(arg_b, arg_a))

\* A pair with a lot code on one side only and a sales order on the other
\* side only, found not to conflict.
C8_Witness ==
    /\ ret.op = "conflicts_with"
    /\ ret.val = Some(FALSE)
    /\ arg_a.lot_code /= None /\ arg_b.lot_code = None
    /\ arg_a.sales_order_id = None /\ arg_b.sales_order_id /= None

PreferNonNull(x, y) == IF x /= None THEN x ELSE y

\* C9: for non-conflicting a and b, every optional field of a.merge(b) is a's
\* value when a's is not None and b's value otherwise, and the quantity is a's.
C9_MergePrefersNonNull ==
    (ret.op = "merge" /\ ~conflicts_with(arg_a, arg_b)) =>
        /\ ret.val /= None
        /\ ret.val[1].product_description =
                PreferNonNull(arg_a.product_description, arg_b.product_description)
        /\ ret.val[1].sales_order_id =
                PreferNonNull(arg_a.sales_order_id, arg_b.sales_order_id)
        /\ ret.val[1].invoice_id = PreferNonNull(arg_a.invoice_id, arg_b.invoice_id)
        /\ ret.val[1].country_of_origin =
                PreferNonNull(arg_a.country_of_origin, arg_b.country_of_origin)
        /\ ret.val[1].lot_code = PreferNonNull(arg_a.lot_code, arg_b.lot_code)
        /\ ret.val[1].quantity = arg_a.quantity

(***************************************************************************)
(* The merge engine on its own: shipments imported one after another into  *)
(* an empty collection, under each value of STRICT_ORDER_MATCHING.         *)
(***************************************************************************)

\* The order of a shipment line: none, or one with or without invoice id
\* and with no, an empty or a set lot code.
ShipmentOrders ==
    {None} \cup
    {Some(Order(None, 1, None, invoice_id, None, lot_code)) :
        invoice_id \in OptionalIds, lot_code \in OptionalStrings({"X"})}

\* Shipment lines of part DK1: with every order when no manufacturer field
\* is given, with no order or the plain order of invoice 1 when one is; and
\* the bare line without part number.
ShipmentImports ==
    {r \in ImportRecords({1}, ShipmentOrders, {None, Some("DK1")},
                         {None, Some(Ab), Some(Cc)},
                         {None, Some(Ab), Some(AbDot), Some(Cc)}, {FALSE}) :
        /\ r.manufacturer_part_number /= None => r.manufacturer_name = None
        /\ (r.manufacturer_part_number /= None \/ r.manufacturer_name /= None) =>
                r.digikey_order \in {None, Some(Order(None, 1, None, Some(1), None, None))}
        /\ r.digikey_part_number = None =>
                /\ r.digikey_order = None
                /\ r.manufacturer_part_number = None
                /\ r.manufacturer_name = None}

InitImport ==
    /\ items = EmptyStore
    /\ config \in ConfigValues
    /\ last = NoCall
    /\ imported = None
    /\ calls = NoCalls
    /\ arg_a = DefaultOrder
    /\ arg_b = DefaultOrder
    /\ ret = NoOrderCall

ImportShipment ==
    \E import_item \in ShipmentImports :
        ImportCall(import_item) /\ UNCHANGED imported

NextImport == ImportShipment

SpecImport == InitImport /\ [][NextImport]_vars

(***************************************************************************)
(* Properties of the merge engine (SpecImport).  Each is stated for the    *)
(* call of merge_and_import_item with every shipment line, in every        *)
(* reachable state of the collection.                                      *)
(***************************************************************************)

\* The STRICT_ORDER_MATCHING values that switch strict mode off.
NonStrictValues == {None, Some(<<"0">>)}

\* The call is not turned down by the strict-order-matching precondition.
PassesValidation(cfg, import_item) == StrictOrderMatchingCheck(cfg, import_item) = None

\* Both values are set, differ, and are not relatively_similar.
Mismatch(existing_value, import_value) ==
    /\ existing_value /= None
    /\ import_value /= None
    /\ existing_value[1] /= import_value[1]
    /\ ~relatively_similar(existing_value[1], import_value[1])

\* The import reaches the stored item that holds its part number.
Matches(store, cfg, import_item) ==
    /\ import_item.digikey_part_number /= None
    /\ PassesValidation(cfg, import_item)
    /\ get_item_by_digikey_part_number(store, import_item.digikey_part_number[1]) /= None

MatchedItem(store, import_item) ==
    get_item_by_digikey_part_number(store, import_item.digikey_part_number[1])[1]

ManufacturerInfoAgrees(existing_item, import_item) ==
    /\ ~Mismatch(existing_item.manufacturer_part_number,
                 import_item.manufacturer_part_number)
    /\ ~Mismatch(existing_item.manufacturer_name, import_item.manufacturer_name)

\* The entries of the history that carry the order's invoice id.
SameInvoice(history, order) ==
    {i \in 1..Len(history) : history[i].invoice_id = order.invoice_id}

\* C3: an import that matches a stored item, with an order whose invoice id no
\* entry of the item's history has, adds the import's quantity to
\* available_quantity, appends the order as the last entry with the earlier
\* entries unchanged and in place, and returns NewItemMergedIntoExistingStock.
C3_NewInvoiceIsMergedIntoStock ==
    \A import_item \in ShipmentImports :
        (/\ Matches(items, config, import_item)
         /\ ManufacturerInfoAgrees(MatchedItem(items, import_item), import_item)
         /\ import_item.digikey_order /= None
         /\ import_item.digikey_order[1].invoice_id /= None
         /\ SameInvoice(MatchedItem(items, import_item).digikey_orders,
                        import_item.digikey_order[1]) = {})
        =>
        LET r == merge_and_import_item(items, config, import_item)
            before == MatchedItem(items, import_item)
            after == GetItem(r.store, before.id)[1]
        IN  /\ r.exc = None
            /\ r.result = "NewItemMergedIntoExistingStock"
            /\ r.id = Some(before.id)
            /\ after.available_quantity = before.available_quantity + import_item.quantity
            /\ Len(after.digikey_orders) = Len(before.digikey_orders) + 1
            /\ after.digikey_orders[Len(after.digikey_orders)] = import_item.digikey_order[1]
            /\ \A i \in 1..Len(before.digikey_orders) :
                    after.digikey_orders[i] = before.digikey_orders[i]

\* An item that holds the orders of two invoices after a merge into stock.
C3_Witness ==
    /\ last.op = "merge_and_import_item"
    /\ last.result = "NewItemMergedIntoExistingStock"
    /\ \E i \in DOMAIN items :
        /\ Len(items[i].digikey_orders) = 2
        /\ items[i].digikey_orders[1].invoice_id /= None
        /\ items[i].digikey_orders[2].invoice_id /= None
        /\ items[i].digikey_orders[1].invoice_id /= items[i].digikey_orders[2].invoice_id
        /\ items[i].available_quantity = 2

\* The outcome C4 describes: every conflicting entry of the invoice kept as it
\* was, the order appended with conflicts = TRUE, the quantity added.
KeptBothOrders(store, cfg, import_item) ==
    LET r == merge_and_import_item(store, cfg, import_item)
        before == MatchedItem(store, import_item)
        order == import_item.digikey_order[1]
    IN  /\ r.exc = None
        /\ r.result = "NewItemMergedIntoExistingStock"
        /\ r.merged /= None
        /\ r.merged[1].digikey_orders =
                Append(before.digikey_orders, [order EXCEPT !.conflicts = TRUE])
        /\ r.merged[1].available_quantity =
                before.available_quantity + import_item.quantity
        /\ GetItem(r.store, before.id)[1].available_quantity =
                before.available_quantity + import_item.quantity
        /\ Len(GetItem(r.store, before.id)[1].digikey_orders) =
                Len(before.digikey_orders) + 1

\* The import has an order, and the matched item's history has an entry of the
\* order's invoice id that conflicts_with it.
FindsConflictingOrder(store, cfg, import_item) ==
    /\ Matches(store, cfg, import_item)
    /\ ManufacturerInfoAgrees(MatchedItem(store, import_item), import_item)
    /\ import_item.digikey_order /= None
    /\ \E i \in SameInvoice(MatchedItem(store, import_item).digikey_orders,
                            import_item.digikey_order[1]) :
            conflicts_with(MatchedItem(store, import_item).digikey_orders[i],
                           import_item.digikey_order[1])

\* Some entry of the order's invoice id does not conflict with the order.
FindsMatchingOrder(store, import_item) ==
    \E i \in SameInvoice(MatchedItem(store, import_item).digikey_orders,
                         import_item.digikey_order[1]) :
        ~conflicts_with(MatchedItem(store, import_item).digikey_orders[i],
                        import_item.digikey_order[1])

C5_ManufacturerMismatchChangesNothing ==
    \A import_item \in ShipmentImports :
        (/\ Matches(items, config, import_item)
         /\ ~ManufacturerInfoAgrees(MatchedItem(items, import_item), import_item))
        =>
        LET r == merge_and_import_item(items, config, import_item)
            existing_item == MatchedItem(items, import_item)
        IN  /\ ExcType(r.exc) = "ManufacturerInfoMismatchError"
            /\ r.store = items
            /\ \/ /\ Mismatch(existing_item.manufacturer_part_number,
                              import_item.manufacturer_part_number)
                  /\ r.exc[1].args = <<existing_item.manufacturer_part_number[1],
                                       import_item.manufacturer_part_number[1]>>
               \/ /\ Mismatch(existing_item.manufacturer_name,
                              import_item.manufacturer_name)
                  /\ r.exc[1].args = <<existing_item.manufacturer_name[1],
                                       import_item.manufacturer_name[1]>>

\* A call turned down with ManufacturerInfoMismatchError on an item that
\* took a similar spelling of its manufacturer name before.
C5_Witness ==
    /\ last.op = "merge_and_import_item"
    /\ last.exc = "ManufacturerInfoMismatchError"
    /\ \E i \in DOMAIN items :
        /\ items[i].manufacturer_name /= None
        /\ items[i].available_quantity = 2

\* C6: with STRICT_ORDER_MATCHING on, an import without part number, without
\* order or without invoice id on the order raises ValueError and leaves the
\* collection as it was; an import with all three does what it does with
\* strict mode off.
C6_StrictModeValidates ==
    get_as_bool(config, FALSE) = Return(TRUE) =>
        \A import_item \in ShipmentImports :
            LET r == merge_and_import_item(items, config, import_item) IN
            IF \/ import_item.digikey_part_number = None
               \/ import_item.digikey_order = None
               \/ import_item.digikey_order[1].invoice_id = None
            THEN /\ ExcType(r.exc) = "ValueError"
                 /\ r.store = items
                 /\ r.id = None
            ELSE \A cfg \in NonStrictValues :
                    r = merge_and_import_item(items, cfg, import_item)

\* In strict mode, a call turned down with ValueError after two shipments
\* were accepted into one item.
C6_Witness ==
    /\ get_as_bool(config, FALSE) = Return(TRUE)
    /\ last.op = "merge_and_import_item"
    /\ last.exc = "ValueError"
    /\ \E i \in DOMAIN items : Len(items[i].digikey_orders) = 2

\* Shipment lines of the part numbers, DK2 among them, which SpecImport
\* never stores.
NewPartImports ==
    ShipmentImports \cup
    {[r EXCEPT !.digikey_part_number = Some("DK2")] :
        r \in {x \in ShipmentImports : x.digikey_part_number /= None}}

\* C10: an import whose part number no stored item holds returns
\* NewItemWithDigikeyNumber and adds one item, with the import's quantity,
\* the import's order as its whole history (none when the import has none),
\* no slot and empty comments; the other items stay as they were.
C10_NewPartNumberCreatesItem ==
    \A import_item \in NewPartImports :
        (/\ import_item.digikey_part_number /= None
         /\ PassesValidation(config, import_item)
         /\ get_item_by_digikey_part_number(items, import_item.digikey_part_number[1]) = None)
        =>
        LET r == merge_and_import_item(items, config, import_item) IN
        /\ r.exc = None
        /\ r.result = "NewItemWithDigikeyNumber"
        /\ r.id /= None
        /\ r.id[1] \notin DOMAIN items
        /\ DOMAIN r.store = DOMAIN items \cup {r.id[1]}
        /\ \A i \in DOMAIN items : r.store[i] = items[i]
        /\ LET new_item == GetItem(r.store, r.id[1])[1] IN
            /\ new_item.digikey_part_number = import_item.digikey_part_number
            /\ new_item.available_quantity = import_item.quantity
            /\ new_item.digikey_orders =
                    (IF import_item.digikey_order = None THEN <<>>
                     ELSE <<import_item.digikey_order[1]>>)
            /\ new_item.slot_ids = {}
            /\ new_item.comments = ""

\* A new DK1 item just created, next to an item without part number, with the
\* shipment's order as its history.
C10_Witness ==
    /\ last.op = "merge_and_import_item"
    /\ last.result = "NewItemWithDigikeyNumber"
    /\ \E i \in DOMAIN items :
        /\ items[i].digikey_part_number /= None
        /\ items[i].available_quantity = 1
        /\ Len(items[i].digikey_orders) = 1
        /\ i = 2

(***************************************************************************)
(* Properties of the collection under every operation (Spec)               *)
(***************************************************************************)

\* C1: whatever store operations and imports ran, one after another, no two
\* stored items carry the same digikey_part_number other than None.
C1_PartNumbersAreUnique ==
    \A i, j \in DOMAIN items :
        (i /= j /\ items[i].digikey_part_number /= None)
            => items[i].digikey_part_number /= items[j].digikey_part_number

\* Two items with a part number each, right after a write was turned down
\* with DuplicateDigiKeyPartNumberError.
C1_Witness ==
    /\ last.exc = "DuplicateDigiKeyPartNumberError"
    /\ \E i, j \in DOMAIN items :
        /\ i /= j
        /\ items[i].digikey_part_number /= None
        /\ items[j].digikey_part_number /= None

(***************************************************************************)
(* Repeated imports: shipments of one part imported one after another,     *)
(* one accepted shipment line being remembered for its later re-import.    *)
(***************************************************************************)

\* Shipment lines of part DK1 with an order of invoice 1 or 2 and no, an
\* empty or a set lot code.
RepeatedImports ==
    ImportRecords({1},
                  {Some(Order(None, 1, None, Some(invoice_id), None, lot_code)) :
                        invoice_id \in 1..2, lot_code \in OptionalStrings({"X"})},
                  {Some("DK1")}, {None}, {None}, {FALSE})

ImportAgain ==
    \E import_item \in RepeatedImports :
        ImportCall(import_item) /\ UNCHANGED imported

\* An import that returns, kept in imported as a shipment already imported.
ImportAndRemember ==
    \E import_item \in RepeatedImports :
        /\ ImportCall(import_item)
        /\ merge_and_import_item(items, config, import_item).exc = None
        /\ imported' = Some(import_item)

NextReimport == ImportAgain \/ ImportAndRemember

SpecReimport == Init /\ [][NextReimport]_vars

\* C2: importing once more a shipment line that was imported before (same
\* part number, same invoice id, same order fields) returns DuplicateOrder
\* and leaves the item's available_quantity and the length of its history
\* as they are, however often it is repeated and whatever was imported in
\* between.
C2_ReimportIsDuplicateOrder ==
    imported /= None =>
        LET r == merge_and_import_item(items, config, imported[1])
            before == MatchedItem(items, imported[1])
            after == GetItem(r.store, before.id)[1]
        IN  /\ r.exc = None
            /\ r.result = "DuplicateOrder"
            /\ after.available_quantity = before.available_quantity
            /\ Len(after.digikey_orders) = Len(before.digikey_orders)

\* The stored items other than id that hold the item's part number.
OtherOwners(store, item, id) ==
    {j \in DOMAIN store :
        /\ j /= id
        /\ item.digikey_part_number /= None
        /\ store[j].digikey_part_number = item.digikey_part_number}

\* C11: add_new of an item whose part number a stored item holds raises
\* DuplicateDigiKeyPartNumberError(owner's id, None); set_existing_item of an
\* item whose part number another stored item holds raises it with (owner's
\* id, the item's id); both leave the collection as it was; replacing an item
\* that keeps its own part number does not raise it.
C11_DuplicatePartNumberIsRejected ==
    \A item \in NewItems(OptionalPartNumbers) :
        /\ \A j \in OtherOwners(items, item, 0) :
                add_new(items, item) =
                    StoreRaise("DuplicateDigiKeyPartNumberError", <<Some(j), None>>, items)
        /\ \A id \in 1..MaxItems :
            /\ \A j \in OtherOwners(items, item, id) :
                    set_existing_item(items, WithId(item, id)) =
                        StoreRaise("DuplicateDigiKeyPartNumberError",
                                   <<Some(j), Some(id)>>, items)
            /\ (id \in DOMAIN items
                    /\ items[id].digikey_part_number = item.digikey_part_number)
                => ExcType(set_existing_item(items, WithId(item, id)).exc)
                        /= "DuplicateDigiKeyPartNumberError"

\* A set_existing_item turned down as a duplicate while both part numbers
\* are held by stored items.
C11_Witness ==
    /\ last.op = "set_existing_item"
    /\ last.exc = "DuplicateDigiKeyPartNumberError"
    /\ \E i, j \in DOMAIN items :
        /\ items[i].digikey_part_number = Some("DK1")
        /\ items[j].digikey_part_number = Some("DK2")

\* C12: set_existing_item of an item whose id is not in the collection raises
\* KeyError, whatever part number the item carries, and leaves the collection
\* as it was.
C12_UnknownIdIsKeyError ==
    \A item \in NewItems(OptionalPartNumbers), id \in 1..MaxItems :
        id \notin DOMAIN items =>
            /\ ExcType(set_existing_item(items, WithId(item, id)).exc) = "KeyError"
            /\ set_existing_item(items, WithId(item, id)).store = items

(***************************************************************************)
(* Slots: items added, put into slots, taken out of slots and looked up    *)
(* by slot.                                                                *)
(***************************************************************************)

MaxSlot == 2       \* slot ids

AddToAnySlot ==
    \E id \in 1..MaxItems, slot_id \in 1..MaxSlot :
        StoreCall("add_to_slot", add_to_slot(items, id, slot_id))

RemoveFromAnySlot ==
    \E id \in 1..MaxItems, slot_id \in 1..MaxSlot :
        StoreCall("remove_from_slot", remove_from_slot(items, id, slot_id))

GetSlot ==
    \E slot_id \in 1..MaxSlot :
        StoreCall("get_slot", get_slot(items, slot_id))

NextSlots == AddNew \/ AddToAnySlot \/ RemoveFromAnySlot \/ GetSlot

SpecSlots == Init /\ [][NextSlots]_vars

\* C13: get_slot(s) returns the stored items whose slot set contains s, each
\* once, and raises KeyError when there is none; add_to_slot on an unknown id
\* and remove_from_slot on an unknown id or on a slot the item is not in
\* raise KeyError and leave the collection as it was.
C13_SlotLookupIsExact ==
    \A slot_id \in 1..MaxSlot :
        /\ LET r == get_slot(items, slot_id)
               holders == {i \in DOMAIN items : slot_id \in items[i].slot_ids}
           IN  /\ r.store = items
               /\ IF holders = {}
                  THEN ExcType(r.exc) = "KeyError"
                  ELSE /\ r.exc = None
                       /\ Len(r.val[1]) = Cardinality(holders)
                       /\ {r.val[1][k].id : k \in 1..Len(r.val[1])} = holders
                       /\ \A k \in 1..Len(r.val[1]) :
                            r.val[1][k] = GetItem(items, r.val[1][k].id)[1]
        /\ \A id \in 1..MaxItems :
            /\ id \notin DOMAIN items =>
                /\ ExcType(add_to_slot(items, id, slot_id).exc) = "KeyError"
                /\ add_to_slot(items, id, slot_id).store = items
                /\ ExcType(remove_from_slot(items, id, slot_id).exc) = "KeyError"
                /\ remove_from_slot(items, id, slot_id).store = items
            /\ (id \in DOMAIN items /\ slot_id \notin items[id].slot_ids) =>
                /\ ExcType(remove_from_slot(items, id, slot_id).exc) = "KeyError"
                /\ remove_from_slot(items, id, slot_id).store = items

\* A lookup that raised KeyError for a slot emptied again while another slot
\* holds both items.
C13_Witness ==
    /\ last.op = "get_slot"
    /\ last.exc = "KeyError"
    /\ Cardinality(DOMAIN items) = 2
    /\ \E slot_id \in 1..MaxSlot : \A i \in DOMAIN items : items[i].slot_ids = {slot_id}

(***************************************************************************)
(* refine_product_details on its own: one raw product, refined once.       *)
(***************************************************************************)

MaxMoistureLen == 5    \* characters of a MoistureSensitivityLevel string

\* Every string of digits, a letter, blanks and brackets up to the bound, and
\* two spellings of "not applicable".
MoistureStrings ==
    UNION {[1..n -> {"0", "1", "2", "x", " ", "(", ")"}] : n \in 0..MaxMoistureLen}
        \cup {NotApplicable, <<"N">> \o SubSeq(NotApplicable, 2, 4) \o <<"A">>
                                  \o SubSeq(NotApplicable, 6, 14)}

Classifications(RohsStatus, MoistureSensitivityLevel) ==
    Some([RohsStatus |-> RohsStatus,
          MoistureSensitivityLevel |-> MoistureSensitivityLevel])

\* An active, stocked product with a product page.
ActiveProduct(classifications) ==
    [QuantityAvailable         |-> Some(1000),
     ProductStatus             |-> Some([Status |-> "Active"]),
     NormallyStocking          |-> Some(TRUE),
     Discontinued              |-> Some(FALSE),
     EndOfLife                 |-> Some(FALSE),
     Classifications           |-> classifications,
     ProductUrl                |-> Some("url"),
     DatasheetUrl              |-> None,
     PhotoUrl                  |-> None,
     Description               |-> Some([ProductDescription |-> Some("vendor"),
                                         DetailedDescription |-> Some("detail")]),
     Manufacturer              |-> Some([Name |-> Ab]),
     ManufacturerProductNumber |-> Some(Ab)]

\* Raw products: every moisture string on an active product, with and
\* without a RoHS status, and the products whose other fields give warnings,
\* unclassified or with each RoHS status, with and without a moisture level.
RawProducts ==
    {ActiveProduct(Classifications(rohs, Some(m))) :
        rohs \in {None, Some("RoHS Compliant")}, m \in MoistureStrings}
    \cup {[ActiveProduct(c) EXCEPT !.QuantityAvailable = q, !.ProductStatus = s,
                                    !.NormallyStocking = n, !.Discontinued = d,
                                    !.EndOfLife = e, !.Description = None] :
            c \in {None} \cup
                  {Classifications(rohs, m) :
                      rohs \in {None, Some("RoHS Compliant"), Some("Not Applicable"),
                                Some("ROHS3 Compliant"), Some("RoHS non-compliant"),
                                Some("RoHS Compliant By Exemption"), Some("Exempt")},
                      m \in {None, Some(<<"2", " ", "x">>)}},
            q \in {None, Some(0), Some(999)},
            s \in {None, Some([Status |-> "Obsolete"])},
            n \in {None, Some(FALSE)},
            d \in {None, Some(TRUE)},
            e \in {None, Some(TRUE)}}

InitDetails ==
    /\ items = EmptyStore
    /\ config = None
    /\ last = NoCall
    /\ imported = None
    /\ calls = NoCalls
    /\ arg_a \in RawProducts
    /\ arg_b = DefaultOrder
    /\ ret = NoOrderCall

RefineProductDetails ==
    /\ ret' = [op |-> "refine_product_details", exc |-> None,
               val |-> Some(refine_product_details(arg_a))]
    /\ UNCHANGED <<items, config, last, imported, calls, arg_a, arg_b>>

NextDetails == RefineProductDetails

SpecDetails == InitDetails /\ [][NextDetails]_vars

\* The warnings refine_product_details gives for everything but moisture.
WithoutMoisture(product) ==
    IF product.Classifications = None THEN product
    ELSE [product EXCEPT !.Classifications[1].MoistureSensitivityLevel = None]

\* C20: for a moisture string that is present and not "not applicable" in
\* any case, the refined warnings are the other warnings followed by: nothing
\* when the first blank-separated token is the integer 0 or 1, with or
\* without a note after it; "Moisture sensitivity level: <level> - <note
\* without outer brackets>" when it is another integer followed by a note;
\* "Moisture sensitivity level: <whole string>" when there is no token or it
\* is not an integer.
C20_MoistureWarningFollowsLevel ==
    (/\ ret.op = "refine_product_details"
     /\ arg_a.Classifications /= None
     /\ arg_a.Classifications[1].MoistureSensitivityLevel /= None
     /\ lower(arg_a.Classifications[1].MoistureSensitivityLevel[1]) /= NotApplicable)
    =>
    LET moisture == arg_a.Classifications[1].MoistureSensitivityLevel[1]
        tokens == split(moisture)
        others == refine_product_details(WithoutMoisture(arg_a)).product_warnings[1]
        emitted == ret.val[1].product_warnings[1]
    IN  IF tokens = <<>> \/ ~IsInt(tokens[1])
        THEN emitted = others \o <<"Moisture sensitivity level: " \o Join(moisture)>>
        ELSE IF int(tokens[1]) \in {0, 1}
        THEN emitted = others
        ELSE Len(tokens) > 1 =>
                emitted = others \o
                    <<"Moisture sensitivity level: " \o str(int(tokens[1])) \o " - "
                        \o Join(strip_chars(split_once(moisture)[2], {"(", ")"}))>>

(***************************************************************************)
(* The importer with enrichment (logic/importer.new_item_importer,         *)
(* infrastructure/digikey_api)                                             *)
(***************************************************************************)

\* What the vendor's endpoint does with one request: whether the OAuth token
\* could be obtained, the status code, whether the body is JSON, whether
\* that validates as ProductDetails, and the Product it then holds.
Responses ==
    [authorized : {TRUE}, status_code : {200}, json : {TRUE}, valid : {TRUE},
     Product : {None, Some(ActiveProduct(None)),
                Some([ActiveProduct(None) EXCEPT !.Manufacturer = None,
                                                 !.ManufacturerProductNumber = None,
                                                 !.Description = None])}]
    \cup {[authorized |-> TRUE, status_code |-> 200, json |-> j, valid |-> FALSE,
           Product |-> None] : j \in BOOLEAN}
    \cup {[authorized |-> a, status_code |-> c, json |-> FALSE, valid |-> FALSE,
           Product |-> None] : a \in BOOLEAN, c \in {404, 500}}

\* DigiKeyAPIImpl.get_product_details through __generic_getter.
get_product_details(response) ==
    IF ~response.authorized
    THEN Raise("AuthException", <<"No OAuth token found in metadata.">>)
    ELSE IF response.status_code >= 400
    THEN IF response.status_code = 404
         THEN Raise("KeyError", <<"Item not found">>)
         ELSE Raise("DigiKeyAPIException", <<response.status_code>>)
    ELSE IF ~response.json
    THEN Raise("DigiKeyAPIException", <<"Failed to parse response as json">>)
    ELSE IF ~response.valid
    THEN Raise("DigiKeyAPIException", <<"Failed to parse response">>)
    ELSE Return([Product |-> response.Product])

\* `except DigiKeyAPIException`: the class and its subclass AuthException.
IsDigiKeyAPIException(exc) ==
    ExcType(exc) \in {"DigiKeyAPIException", "AuthException"}

\* Whether new_item_importer asks the vendor about item.
NeedsDetails(item) ==
    /\ item.digikey_part_number /= None
    /\ \/ item.product_details = None
       \/ item.manufacturer_name = None
       \/ item.manufacturer_part_number = None
       \/ item.is_description_placeholder

\* The enrichment that takes every field the vendor's product has.
EnrichedOverwrites(item, raw_details) ==
    LET described == /\ raw_details.Description /= None
                     /\ TruthyStr(raw_details.Description[1].ProductDescription)
    IN  [item EXCEPT
            !.product_details = Some(refine_product_details(raw_details)),
            !.manufacturer_name =
                IF raw_details.Manufacturer /= None
                THEN Some(raw_details.Manufacturer[1].Name) ELSE @,
            !.manufacturer_part_number = raw_details.ManufacturerProductNumber,
            !.item_description =
                IF described THEN raw_details.Description[1].ProductDescription[1]
                ELSE @,
            !.is_description_placeholder = IF described THEN FALSE ELSE @]

\* The import record after the fields it lacks are filled from raw_details.
Enriched(item, raw_details) ==
    LET described == /\ item.is_description_placeholder
                     /\ raw_details.Description /= None
                     /\ TruthyStr(raw_details.Description[1].ProductDescription)
    IN  [item EXCEPT
            !.product_details =
                IF item.product_details = None
                THEN Some(refine_product_details(raw_details)) ELSE @,
            !.manufacturer_name =
                IF item.manufacturer_name = None /\ raw_details.Manufacturer /= None
                THEN Some(raw_details.Manufacturer[1].Name) ELSE @,
            !.manufacturer_part_number =
                IF item.manufacturer_part_number = None
                THEN raw_details.ManufacturerProductNumber ELSE @,
            !.item_description =
                IF described THEN raw_details.Description[1].ProductDescription[1]
                ELSE @,
            !.is_description_placeholder = IF described THEN FALSE ELSE @]

new_item_importer(store, cfg, item, response) ==
    LET fetched == get_product_details(response) IN
    IF ~NeedsDetails(item) THEN merge_and_import_item(store, cfg, item)
    ELSE IF fetched.exc /= None /\ ~IsDigiKeyAPIException(fetched.exc)
    THEN ImportRaise(fetched.exc, store)
    ELSE LET raw_details == IF fetched.exc /= None THEN None
                            ELSE fetched.val[1].Product
         IN  IF raw_details = None THEN merge_and_import_item(store, cfg, item)
             ELSE merge_and_import_item(store, cfg, Enriched(item, raw_details[1]))

\* Import records handed to the importer: the bare record without part
\* number, and those of part DK1, complete or lacking details, manufacturer
\* part number or description.
ImporterImports ==
    {r \in {[i EXCEPT !.product_details = d] :
                i \in ImportRecords({1}, {None}, {None, Some("DK1")}, {None, Some(Ab)},
                                    {None}, {FALSE, TRUE}),
                d \in {None, Some(ProductDetails1)}} :
        r.digikey_part_number = None =>
            /\ r.manufacturer_part_number = None
            /\ ~r.is_description_placeholder
            /\ r.product_details = None}

NewItemImporter ==
    \E item \in ImporterImports, response \in Responses :
        LET r == new_item_importer(items, config, item, response) IN
        /\ WithinBounds(r.store)
        /\ items' = r.store
        /\ last' = [op |-> "new_item_importer", exc |-> ExcType(r.exc),
                    result |-> r.result]
        /\ UNCHANGED <<config, imported, calls, arg_a, arg_b, ret>>

NextImporter == NewItemImporter

SpecImporter == InitImport /\ [][NextImporter]_vars

\* C14: whenever new_item_importer asks the vendor for product details and
\* the call fails (HTTP error, 404, malformed response, failed
\* authentication), the importer raises nothing of it and does what
\* merge_and_import_item does with the record as it was handed in.
C14_EnrichmentFailureNeverBlocksImport ==
    \A item \in ImporterImports, response \in Responses :
        (NeedsDetails(item) /\ get_product_details(response).exc /= None) =>
            new_item_importer(items, config, item, response)
                = merge_and_import_item(items, config, item)

(***************************************************************************)
(* _merge_product_details on its own: an item's details and an import's.   *)
(***************************************************************************)

\* Optional product details whose set strings are empty or name the side
\* they come from, and whose warning list is unset, empty or one warning.
DetailsValues(side) ==
    {None} \cup
    {Some(d) : d \in [product_url          : OptionalStrings({side}),
                      datasheet_url        : {None, Some(side)},
                      image_url            : {None, Some("")},
                      detailed_description : OptionalStrings({side}),
                      product_warnings     : {None, Some(<<>>), Some(<<side>>)}]}

InitMergeDetails ==
    /\ items = EmptyStore
    /\ config = None
    /\ last = NoCall
    /\ imported = None
    /\ calls = NoCalls
    /\ arg_a \in DetailsValues("existing")
    /\ arg_b \in DetailsValues("new")
    /\ ret = NoOrderCall

MergeProductDetails ==
    /\ ret' = [op |-> "merge_product_details", exc |-> None,
               val |-> Some(merge_product_details(arg_a, arg_b))]
    /\ UNCHANGED <<items, config, last, imported, calls, arg_a, arg_b>>

NextMergeDetails == MergeProductDetails

SpecMergeDetails == InitMergeDetails /\ [][NextMergeDetails]_vars

\* C15: when the item (arg_a) and the import (arg_b) both carry product
\* details, each field of the merged details is the import's value whenever
\* that is not null, an empty string and an empty warning list included, and
\* the item's value only when the import's is null; when one side has no
\* details the other side's record is the result.
C15_ImportsNonNullDetailWins ==
    ret.op = "merge_product_details" =>
        IF arg_a = None THEN ret.val[1] = arg_b
        ELSE IF arg_b = None THEN ret.val[1] = arg_a
        ELSE /\ ret.val[1] /= None
             /\ \A f \in {"product_url", "datasheet_url", "image_url",
                          "detailed_description", "product_warnings"} :
                    ret.val[1][1][f] = PreferNonNull(arg_b[1][f], arg_a[1][f])

\* merged_value is what the claim gives for a manufacturer field that is
\* existing_value on the item and import_value on the import.
Reconciled(existing_value, import_value, merged_value) ==
    IF existing_value = None THEN merged_value = import_value
    ELSE IF import_value = None THEN merged_value = existing_value
    ELSE (existing_value[1] = import_value[1]
            \/ relatively_similar(existing_value[1], import_value[1]))
         => merged_value = existing_value

FieldImports ==
    {[r EXCEPT !.item_description = d, !.digikey_barcode_2d = b[1],
               !.digikey_barcode_1d = b[2]] :
        r \in ImportRecords({1}, {Some(Order(None, 1, None, Some(1), None, None))},
                            {Some("DK1")}, {None}, {None}, {FALSE, TRUE}),
        d \in {"d1", "d2"},
        b \in {<<None, None>>, <<Some(""), None>>, <<Some("b1"), Some("c1")>>}}
    \cup ImportRecords({1}, {None}, {Some("DK2")}, {None, Some(Ab), Some(Cc)},
                       {None}, {FALSE})

ImportFields ==
    \E import_item \in FieldImports :
        ImportCall(import_item) /\ UNCHANGED imported

NextFields == ImportFields \/ AddToSlot \/ SetComments

SpecFields == Init /\ [][NextFields]_vars

\* C17: when an import is merged into the stored item of its part number,
\* the stored description is the import's if the item's placeholder flag was
\* true and the item's own if it was false, and the stored flag is the
\* conjunction of the item's and the import's; so an item whose flag is false
\* keeps flag and description through every import.
C17_DescriptionFollowsPlaceholder ==
    \A import_item \in FieldImports :
        (/\ Matches(items, config, import_item)
         /\ ManufacturerInfoAgrees(MatchedItem(items, import_item), import_item))
        =>
        LET r == merge_and_import_item(items, config, import_item)
            existing_item == MatchedItem(items, import_item)
            stored == r.store[existing_item.id]
        IN  /\ r.exc = None
            /\ stored.item_description =
                    IF existing_item.is_description_placeholder
                    THEN import_item.item_description
                    ELSE existing_item.item_description
            /\ stored.is_description_placeholder =
                    (existing_item.is_description_placeholder
                        /\ import_item.is_description_placeholder)
            /\ ~existing_item.is_description_placeholder =>
                    /\ ~stored.is_description_placeholder
                    /\ stored.item_description = existing_item.item_description

\* An item created with a placeholder description that a later import
\* replaced for good, with imports of the other description still to come.
C17_Witness ==
    /\ last.op = "merge_and_import_item"
    /\ last.result = "DuplicateOrder"
    /\ \E i \in DOMAIN items :
        /\ items[i].digikey_part_number = Some("DK1")
        /\ items[i].item_description = "d2"
        /\ ~items[i].is_description_placeholder
        /\ items[i].digikey_barcode_2d = {"b1"}

\* C18: a merge into the stored item of the import's part number leaves the
\* item's id, part number, slots and comments as they were, and its barcode
\* sets are the ones it had together with the import's 2D and 1D barcode,
\* when the import carries one.
C18_MergeKeepsPlacementAndBarcodes ==
    \A import_item \in FieldImports :
        (/\ Matches(items, config, import_item)
         /\ ManufacturerInfoAgrees(MatchedItem(items, import_item), import_item))
        =>
        LET r == merge_and_import_item(items, config, import_item)
            existing_item == MatchedItem(items, import_item)
            stored == r.store[existing_item.id]
        IN  /\ r.exc = None
            /\ r.id = Some(existing_item.id)
            /\ stored.id = existing_item.id
            /\ stored.digikey_part_number = existing_item.digikey_part_number
            /\ stored.slot_ids = existing_item.slot_ids
            /\ stored.comments = existing_item.comments
            /\ stored.digikey_barcode_2d =
                    existing_item.digikey_barcode_2d \cup
                        (IF import_item.digikey_barcode_2d = None THEN {}
                         ELSE {import_item.digikey_barcode_2d[1]})
            /\ stored.digikey_barcode_1d =
                    existing_item.digikey_barcode_1d \cup
                        (IF import_item.digikey_barcode_1d = None THEN {}
                         ELSE {import_item.digikey_barcode_1d[1]})

\* A commented item in a slot that merges gave a second 2D barcode and a 1D
\* barcode (the empty barcode enters only through a merge).
C18_Witness ==
    /\ last.op = "merge_and_import_item"
    /\ last.result = "DuplicateOrder"
    /\ \E i \in DOMAIN items :
        /\ items[i].slot_ids = {1}
        /\ items[i].comments = "note"
        /\ items[i].digikey_barcode_2d = {"", "b1"}
        /\ items[i].digikey_barcode_1d = {"c1"}

\* C19: a call of merge_and_import_item that raises leaves the collection as
\* it was; a call that returns changed it by one store operation on the
\* fully reconciled record: add_new of the mapped import when no stored item
\* has the part number, set_existing_item of the merged item otherwise; and
\* every stored item other than the created or matched one is as before.
C19_ImportIsOneWrite ==
    \A import_item \in FieldImports :
        LET r == merge_and_import_item(items, config, import_item) IN
        IF r.exc /= None THEN r.store = items
        ELSE /\ \A i \in DOMAIN items : i /= r.id[1] => r.store[i] = items[i]
             /\ IF Matches(items, config, import_item)
                THEN /\ r.id[1] = MatchedItem(items, import_item).id
                     /\ DOMAIN r.store = DOMAIN items
                     /\ r.merged /= None
                     /\ r.merged[1].id = r.id[1]
                     /\ set_existing_item(items, r.merged[1]) = StoreReturn(None, r.store)
                ELSE /\ r.id[1] \notin DOMAIN items
                     /\ DOMAIN r.store = DOMAIN items \cup {r.id[1]}
                     /\ add_new(items, map_inv_item_import_to_inv_item(import_item))
                            = StoreReturn(r.id, r.store)

\* Two stored items, each changed since it was created, after a merge, with
\* an import that the next call turns down.
C19_Witness ==
    /\ last.op = "merge_and_import_item"
    /\ last.result = "NewItemMergedIntoExistingStock"
    /\ Cardinality(DOMAIN items) = 2
    /\ \A i \in DOMAIN items : items[i].comments = "note"
    /\ \E import_item \in FieldImports :
            merge_and_import_item(items, config, import_item).exc /= None

\* The RoHS warning the mapping of the status gives; a product without
\* classifications has no status.
RohsStatusOf(product) ==
    IF product.Classifications = None THEN None
    ELSE product.Classifications[1].RohsStatus

\* C21: the refined warnings are the stock, status, stocking, discontinued
\* and end-of-life warnings, then the RoHS warning, then the moisture
\* warning, where the RoHS warning is "No RoHS status" for a missing status,
\* none for "RoHS Compliant", "Not Applicable" and "ROHS3 Compliant", "Not
\* RoHS compliant" for "RoHS non-compliant", "RoHS compliant by exemption"
\* for "RoHS Compliant By Exemption" and "RoHS status: <value>" for any
\* other value.
C21_RohsStatusIsMapped ==
    ret.op = "refine_product_details" =>
    LET status == RohsStatusOf(arg_a)
        before == refine_product_details(
                    [arg_a EXCEPT !.Classifications =
                        Classifications(Some("RoHS Compliant"), None)]).product_warnings[1]
        moisture == IF arg_a.Classifications = None
                       \/ arg_a.Classifications[1].MoistureSensitivityLevel = None
                    THEN <<>>
                    ELSE MoistureWarnings(
                            arg_a.Classifications[1].MoistureSensitivityLevel[1])
        rohs == IF status = None THEN <<"No RoHS status">>
                ELSE IF status[1] \in {"RoHS Compliant", "Not Applicable", "ROHS3 Compliant"}
                THEN <<>>
                ELSE IF status[1] = "RoHS non-compliant" THEN <<"Not RoHS compliant">>
                ELSE IF status[1] = "RoHS Compliant By Exemption"
                THEN <<"RoHS compliant by exemption">>
                ELSE <<"RoHS status: " \o status[1]>>
    IN  ret.val[1].product_warnings[1] = before \o rohs \o moisture

(***************************************************************************)
(* BOM matching (logic/bom_matching): parts added to the collection and    *)
(* BOM entries matched against it.                                         *)
(***************************************************************************)

MaxResults == 2    \* max_results of a match

\* The documents whose manufacturer_part_number is one of the given numbers,
\* each once, in the collection's order.
get_items_by_manufacturer_part_numbers(store, manufacturer_part_numbers) ==
    LET found == SelectSeq([i \in 1..Cardinality(DOMAIN store) |-> i],
                    LAMBDA i : /\ store[i].manufacturer_part_number /= None
                               /\ \E k \in 1..Len(manufacturer_part_numbers) :
                                    manufacturer_part_numbers[k]
                                        = store[i].manufacturer_part_number[1])
    IN  [k \in 1..Len(found) |-> FromDb(store[found[k]])]

\* What find({"$text": ...}, limit=max_results or 0) sorted by score can
\* return: stored items, each at most once, in any order, at most limit of
\* them unless limit is 0.
text_search(store, max_results) ==
    {[k \in 1..Len(ids) |-> FromDb(store[ids[k]])] :
        ids \in {s \in UNION {[1..n -> DOMAIN store] : n \in 0..Cardinality(DOMAIN store)} :
                    /\ \A i, j \in 1..Len(s) : i /= j => s[i] /= s[j]
                    /\ (max_results = 0 \/ Len(s) <= max_results)}}

\* {item.id: item for item in chain} as the list of its values: a key keeps
\* the place of its first insertion and takes the value inserted last.
RECURSIVE DictValues(_, _)
DictValues(chain, values) ==
    IF chain = <<>> THEN values
    ELSE IF \E k \in 1..Len(values) : values[k].id = Head(chain).id
    THEN DictValues(Tail(chain),
                    [k \in 1..Len(values) |->
                        IF values[k].id = Head(chain).id THEN Head(chain) ELSE values[k]])
    ELSE DictValues(Tail(chain), Append(values, Head(chain)))

\* match_bom_entry_to_inventory, text_matches being what text_search returns
\* when it is called.
match_bom_entry_to_inventory(bom_entry, store, max_results, text_matches) ==
    LET reversed(s) == [i \in 1..Len(s) |-> s[Len(s) + 1 - i]]
        Truthy(x) == x /= None /\ x[1] /= <<>>
        ext == bom_entry.fusion360_ext
        manufacturer_part_numbers ==
            IF ext = None THEN <<>>
            ELSE (IF Truthy(ext[1].manufacturer_part_number)
                  THEN <<ext[1].manufacturer_part_number[1]>> ELSE <<>>)
                 \o (IF Truthy(ext[1].mpn) THEN <<ext[1].mpn[1]>> ELSE <<>>)
        exact_matches ==
            IF manufacturer_part_numbers /= <<>>
            THEN get_items_by_manufacturer_part_numbers(store, manufacturer_part_numbers)
            ELSE <<>>
        search_terms ==
            (IF bom_entry.device /= <<>> THEN <<bom_entry.device>> ELSE <<>>)
            \o (IF Truthy(bom_entry.value) THEN <<bom_entry.value[1]>> ELSE <<>>)
            \o (IF Truthy(bom_entry.description) THEN <<bom_entry.description[1]>> ELSE <<>>)
            \o (IF Truthy(bom_entry.manufacturer) THEN <<bom_entry.manufacturer[1]>> ELSE <<>>)
            \o manufacturer_part_numbers
        searched == IF search_terms /= <<>> THEN text_matches ELSE <<>>
        all_matches == DictValues(reversed(searched) \o reversed(exact_matches), <<>>)
        ranked == reversed(all_matches)
    IN  SubSeq(ranked, 1, IF Len(ranked) < max_results THEN Len(ranked) ELSE max_results)

\* BOM entries: with and without device name, without Fusion 360 extension
\* or with one that names no, one or two manufacturer part numbers.
BomEntries ==
    [device : {<<>>, <<"R">>}, value : {None}, description : {None, Some(<<>>)},
     manufacturer : {None},
     fusion360_ext : {None} \cup
        {Some(e) : e \in [manufacturer_part_number : {None, Some(Ab)},
                          mpn : {None, Some(<<>>), Some(Cc)}]}]

\* A part without vendor part number, with or without manufacturer part number.
AddPart ==
    \E item \in NewItems({None}), manufacturer_part_number \in {None, Some(Ab), Some(Cc)} :
        StoreCall("add_new",
                  add_new(items, [item EXCEPT !.manufacturer_part_number =
                                                    manufacturer_part_number]))

MatchBomEntry ==
    \E bom_entry \in BomEntries, max_results \in 1..MaxResults :
        \E text_matches \in text_search(items, max_results) :
            /\ arg_a' = bom_entry
            /\ arg_b' = [max_results |-> max_results, text_matches |-> text_matches]
            /\ ret' = [op |-> "match_bom_entry_to_inventory", exc |-> None,
                       val |-> Some(match_bom_entry_to_inventory(
                                        bom_entry, items, max_results, text_matches))]
            /\ UNCHANGED <<items, config, last, imported, calls>>

NextBom == AddPart \/ MatchBomEntry

SpecBom == Init /\ [][NextBom]_vars

\* The item is an exact match of the entry: its manufacturer part number is
\* one the entry's Fusion 360 extension names.
ExactMatch(bom_entry, item) ==
    /\ bom_entry.fusion360_ext /= None
    /\ item.manufacturer_part_number /= None
    /\ item.manufacturer_part_number[1] /= <<>>
    /\ item.manufacturer_part_number \in
            {bom_entry.fusion360_ext[1].manufacturer_part_number,
             bom_entry.fusion360_ext[1].mpn}

\* C22: a match returns at most max_results items, no item id twice, and no
\* item found by text search only stands before an exact match of the
\* manufacturer part number.
C22_ExactMatchesComeFirst ==
    ret.op = "match_bom_entry_to_inventory" =>
    LET result == ret.val[1] IN
    /\ Len(result) <= arg_b.max_results
    /\ \A i, j \in 1..Len(result) : i /= j => result[i].id /= result[j].id
    /\ \A i, j \in 1..Len(result) :
            (i < j /\ ExactMatch(arg_a, result[j])) => ExactMatch(arg_a, result[i])

(***************************************************************************)
(* merge_and_import_item step by step: each execution reads the item of    *)
(* the part number (merge.py:123) and later writes (add_new at 129,        *)
(* set_existing_item at 214); other executions and store calls may take    *)
(* effect in between.                                                      *)
(***************************************************************************)

Procs == {1, 2}

\* Shipment lines of part DK1, of invoice 1 and of invoice 2.
RaceImports ==
    ImportRecords({1},
                  {Some(Order(None, 1, None, Some(invoice_id), None, None)) :
                        invoice_id \in 1..2},
                  {Some("DK1")}, {None}, {None}, {FALSE})

\* The write that looks the item up again instead of using what was read.
ImportFromReadRereads(store, existing_item, import_item) ==
    merge_and_import_item(store, None, import_item)

\* merge_and_import_item from line 125 on, existing_item being what the
\* lookup at line 123 returned.
ImportFromRead(store, existing_item, import_item) ==
    IF existing_item = None
    THEN ImportNew(store, import_item, "NewItemWithDigikeyNumber")
    ELSE
    LET mpn == ReconcileManufacturerInfo(existing_item[1].manufacturer_part_number,
                                         import_item.manufacturer_part_number)
        name == ReconcileManufacturerInfo(existing_item[1].manufacturer_name,
                                          import_item.manufacturer_name)
        orders == merge_order_details(existing_item[1].digikey_orders,
                                      import_item.digikey_order)
    IN
    IF mpn.exc /= None THEN ImportRaise(mpn.exc, store)
    ELSE IF name.exc /= None THEN ImportRaise(name.exc, store)
    ELSE IF orders.exc /= None THEN ImportRaise(orders.exc, store)
    ELSE MergeIntoExisting(store, existing_item[1], import_item,
                           mpn.val[1], name.val[1], orders)

\* The stock item of part DK1 entered by hand.
AddStock ==
    \E item \in NewItems({Some("DK1")}) :
        StoreCall("add_new", add_new(items, item))

\* Process p calls merge_and_import_item: the strict-mode check, up to the
\* lookup.
BeginImport(p) ==
    /\ IF p \in DOMAIN calls THEN calls[p].pc = "done" ELSE TRUE
    /\ \E import_item \in RaceImports :
        LET invalid == StrictOrderMatchingCheck(config, import_item)
            frame == [pc |-> IF invalid /= None THEN "done" ELSE "read",
                      import_item |-> import_item, existing |-> None,
                      exc |-> ExcType(invalid), result |-> ""]
        IN  calls' = [q \in DOMAIN calls \cup {p} |-> IF q = p THEN frame ELSE calls[q]]
    /\ UNCHANGED <<items, config, last, imported, arg_a, arg_b, ret>>

\* Line 123: the lookup by part number.
ReadItem(p) ==
    /\ p \in DOMAIN calls
    /\ calls[p].pc = "read"
    /\ calls' = [calls EXCEPT ![p].pc = "write",
                              ![p].existing =
                                get_item_by_digikey_part_number(
                                    items, calls[p].import_item.digikey_part_number[1])]
    /\ UNCHANGED <<items, config, last, imported, arg_a, arg_b, ret>>

\* Lines 125-215: the reconciliation of what was read and the one write.
WriteItem(p) ==
    /\ p \in DOMAIN calls
    /\ calls[p].pc = "write"
    /\ LET r == ImportFromRead(items, calls[p].existing, calls[p].import_item) IN
        /\ WithinBounds(r.store)
        /\ items' = r.store
        /\ calls' = [calls EXCEPT ![p].pc = "done", ![p].exc = ExcType(r.exc),
                                  ![p].result = r.result]
        /\ last' = [op |-> "merge_and_import_item", exc |-> ExcType(r.exc),
                    result |-> r.result]
    /\ UNCHANGED <<config, imported, arg_a, arg_b, ret>>

NextRace ==
    \/ AddStock
    \/ \E p \in Procs : BeginImport(p)
    \/ \E p \in Procs : ReadItem(p)
    \/ \E p \in Procs : WriteItem(p)

SpecRace == Init /\ [][NextRace]_vars

\* Both executions returned NewItemMergedIntoExistingStock for orders of
\* different invoices after both had read the same stored item.
BothMergedFromSameRead ==
    /\ DOMAIN calls = Procs
    /\ \A p \in Procs :
        /\ calls[p].pc = "done"
        /\ calls[p].exc = ""
        /\ calls[p].result = "NewItemMergedIntoExistingStock"
        /\ calls[p].existing /= None
    /\ calls[1].existing = calls[2].existing
    /\ calls[1].import_item.digikey_order[1].invoice_id
            /= calls[2].import_item.digikey_order[1].invoice_id

\* C23: two executions for one part number that both read the item before
\* either wrote, and both report a merge of a new invoice, leave one effect
\* only: the stored quantity is the quantity read plus one of the two
\* import quantities, less than with both, and the history is the history
\* read plus one of the two orders.
C23_ConcurrentImportsLoseAnUpdate ==
    BothMergedFromSameRead =>
    LET read == calls[1].existing[1]
        stored == FromDb(items[read.id])
    IN  /\ stored.available_quantity
                < read.available_quantity + calls[1].import_item.quantity
                    + calls[2].import_item.quantity
        /\ \E p \in Procs :
            /\ stored.available_quantity
                    = read.available_quantity + calls[p].import_item.quantity
            /\ stored.digikey_orders
                    = Append(read.digikey_orders, calls[p].import_item.digikey_order[1])

\* Both executions reported success for the invoices 1 and 2, and the stock
\* item holds one unit and one order.
C23_Witness ==
    /\ BothMergedFromSameRead
    /\ \E i \in DOMAIN items :
        /\ items[i].available_quantity = 1
        /\ Len(items[i].digikey_orders) = 1

(***************************************************************************)
(* One execution of merge_and_import_item among the store's slot, comment  *)
(* and quantity calls.                                                     *)
(***************************************************************************)

NextRaceOps ==
    \/ AddStock
    \/ BeginImport(1)
    \/ ReadItem(1)
    \/ WriteItem(1)
    \/ AddToSlot
    \/ RemoveFromSlot
    \/ SetComments
    \/ SetQuantity

SpecRaceOps == Init /\ [][NextRaceOps]_vars

\* The step is the replace (merge.py:214) of an execution whose item was
\* changed in slots, comments or quantity since the execution read it.
ReplaceAfterChange ==
    /\ 1 \in DOMAIN calls
    /\ calls[1].pc = "write"
    /\ calls[1].existing /= None
    /\ calls'[1].pc = "done"
    /\ calls'[1].exc = ""
    /\ LET read == calls[1].existing[1] IN
        /\ read.id \in DOMAIN items
        /\ \/ items[read.id].slot_ids /= read.slot_ids
           \/ items[read.id].comments /= read.comments
           \/ items[read.id].available_quantity /= read.available_quantity

\* C27: a change of slots, comments or quantity that took effect between
\* the read and the replace of merge_and_import_item on the same item is
\* still present after the replace: the slots and comments are those
\* stored before the replace, and the quantity is the stored quantity plus
\* the import's where the order was added.
C27_StoreChangeSurvivesReplace ==
    [][ReplaceAfterChange =>
        LET id == calls[1].existing[1].id IN
            /\ items'[id].slot_ids = items[id].slot_ids
            /\ items'[id].comments = items[id].comments
            /\ calls'[1].result = "NewItemMergedIntoExistingStock" =>
                items'[id].available_quantity
                    = items[id].available_quantity + calls[1].import_item.quantity]_vars

(***************************************************************************)
(* Imports whose order accounts for the whole line: the order's quantity   *)
(* is the record's quantity.                                               *)
(***************************************************************************)

\* Lines of one or two units, with or without the part number DK1, of
\* invoice 1 or none, with lot code X, Y or none.
LedgerImports ==
    {r \in ImportRecords(1..MaxStock,
                         {Some(Order(None, quantity, None, invoice_id, None, lot_code)) :
                            quantity \in 1..MaxStock, invoice_id \in {None, Some(1)},
                            lot_code \in {None, Some("X"), Some("Y")}},
                         {None, Some("DK1")}, {None}, {None}, {FALSE}) :
        r.digikey_order[1].quantity = r.quantity}

ImportLedger ==
    \E import_item \in LedgerImports :
        ImportCall(import_item) /\ UNCHANGED imported

NextLedger == ImportLedger

SpecLedger == Init /\ [][NextLedger]_vars

\* The sum of the quantities of the entries of an order history.
RECURSIVE OrderedQuantity(_)
OrderedQuantity(orders) ==
    IF orders = <<>> THEN 0
    ELSE Head(orders).quantity + OrderedQuantity(Tail(orders))

\* C24: after any sequence of merge_and_import_item calls on the empty
\* store, one at a time, with records whose order has the record's
\* quantity, the available_quantity of every stored item is the sum of the
\* quantities of its order history.
C24_QuantityIsSumOfOrders ==
    \A i \in DOMAIN items :
        items[i].available_quantity = OrderedQuantity(items[i].digikey_orders)

\* An item of two units that came with two orders of the same invoice, the
\* second one in conflict with the first.
C24_Witness ==
    /\ last.op = "merge_and_import_item"
    /\ last.result = "NewItemMergedIntoExistingStock"
    /\ \E i \in DOMAIN items :
        /\ items[i].available_quantity = 2
        /\ Len(items[i].digikey_orders) = 2
        /\ items[i].digikey_orders[1].invoice_id = items[i].digikey_orders[2].invoice_id

\* C25 (SpecImport): a call returns DuplicateOrder only when the import's
\* order has an invoice id and an entry of the matched item's history has
\* that id; an import that matches an item with an order without invoice id
\* returns NewItemMergedIntoExistingStock, adds its quantity and appends its
\* order to the history.
C25_NullInvoiceIsNeverMatched ==
    \A import_item \in ShipmentImports :
        LET r == merge_and_import_item(items, config, import_item) IN
        /\ (r.exc = None /\ r.result = "DuplicateOrder") =>
                /\ import_item.digikey_order /= None
                /\ import_item.digikey_order[1].invoice_id /= None
                /\ SameInvoice(MatchedItem(items, import_item).digikey_orders,
                               import_item.digikey_order[1]) /= {}
        /\ (/\ Matches(items, config, import_item)
            /\ ManufacturerInfoAgrees(MatchedItem(items, import_item), import_item)
            /\ import_item.digikey_order /= None
            /\ import_item.digikey_order[1].invoice_id = None) =>
                LET before == MatchedItem(items, import_item) IN
                /\ r.exc = None
                /\ r.result = "NewItemMergedIntoExistingStock"
                /\ r.merged[1].available_quantity
                        = before.available_quantity + import_item.quantity
                /\ Len(r.merged[1].digikey_orders) = Len(before.digikey_orders) + 1

\* C26 (SpecImport): an entry that a call of merge_and_import_item put into
\* an item's history with its conflict flag true has the flag true in the
\* item as the store returns it after every later call, also after one that
\* merges with that entry as a DuplicateOrder.
C26_ConflictFlagIsKept ==
    \A import_item \in ShipmentImports :
        LET r == merge_and_import_item(items, config, import_item) IN
        (r.exc = None /\ r.merged /= None) =>
            \A i \in {j \in 1..Len(r.merged[1].digikey_orders) :
                        r.merged[1].digikey_orders[j].conflicts} :
                \A later_item \in ShipmentImports :
                    LET later == merge_and_import_item(r.store, config, later_item) IN
                    FromDb(later.store[r.merged[1].id]).digikey_orders[i].conflicts

\* Import records of part DK1 with and without a manufacturer part number
\* and name of their own.
EnrichmentRecords ==
    {[item EXCEPT !.manufacturer_part_number = manufacturer_part_number,
                  !.manufacturer_name = manufacturer_name] :
        item \in {i \in ImporterImports : i.digikey_part_number /= None},
        manufacturer_part_number \in {None, Some(Cc)},
        manufacturer_name \in {None, Some(Cc)}}

\* The products the vendor's endpoint returns.
FetchedProducts ==
    {response.Product[1] : response \in {r \in Responses : r.Product /= None}}

\* enriched has the product details, manufacturer name and manufacturer
\* part number that item had set, and item's description when that was not
\* a placeholder.
KeepsWhatWasSet(item, enriched) ==
    /\ item.product_details /= None => enriched.product_details = item.product_details
    /\ item.manufacturer_name /= None =>
            enriched.manufacturer_name = item.manufacturer_name
    /\ item.manufacturer_part_number /= None =>
            enriched.manufacturer_part_number = item.manufacturer_part_number
    /\ ~item.is_description_placeholder =>
            /\ enriched.item_description = item.item_description
            /\ ~enriched.is_description_placeholder

C29_ReturnedIdIsStored ==
    \A import_item \in ShipmentImports :
        LET r == merge_and_import_item(items, config, import_item) IN
        r.exc = None =>
            /\ r.id /= None
            /\ r.id[1] \in DOMAIN r.store
            /\ import_item.digikey_part_number /= None =>
                    r.store[r.id[1]].digikey_part_number = import_item.digikey_part_number
            /\ r.result \in {"NewItemWithoutDigikeyNumber", "NewItemWithDigikeyNumber",
                             "NewItemMergedIntoExistingStock", "DuplicateOrder"}
            /\ r.result \in {"NewItemWithoutDigikeyNumber", "NewItemWithDigikeyNumber"} =>
                    /\ r.id[1] \notin DOMAIN items
                    /\ DOMAIN r.store = DOMAIN items \cup {r.id[1]}
            /\ r.result \in {"NewItemMergedIntoExistingStock", "DuplicateOrder"} =>
                    DOMAIN r.store = DOMAIN items

\* The part DK1 imported as a new item into a collection that held an item
\* without part number.
C29_Witness ==
    /\ last.op = "merge_and_import_item"
    /\ last.result = "NewItemWithDigikeyNumber"
    /\ Cardinality(DOMAIN items) = 2
    /\ items[1].digikey_part_number = None
    /\ items[2].digikey_part_number = Some("DK1")

(***************************************************************************)
(* The import of a pack list (web_api.add_items_by_pack_list_barcode,      *)
(* digikey_mappers.map_pack_list_to_import_items)                          *)
(***************************************************************************)

\* Pack lists of invoice 1 or 2 with one or two lines, each one unit of DK1
\* or DK2.
PackLists ==
    [SalesorderId    : {None},
     InvoiceId       : {Some(1), Some(2)},
     PackListDetails : {<<[DigiKeyPartNumber |-> a, Quantity |-> 1]>> :
                            a \in {"DK1", "DK2"}}
                       \cup {<<[DigiKeyPartNumber |-> a, Quantity |-> 1],
                               [DigiKeyPartNumber |-> b, Quantity |-> 1]>> :
                            a \in {"DK1", "DK2"}, b \in {"DK1", "DK2"}}]

\* What the vendor answers when asked about a line's part: the product of
\* manufacturer Ab, the same product with the manufacturer part number cc,
\* or 404.
LineResponses ==
    {[authorized |-> TRUE, status_code |-> 200, json |-> TRUE, valid |-> TRUE,
      Product |-> Some([ActiveProduct(None) EXCEPT !.ManufacturerProductNumber = m])] :
        m \in {Some(Ab), Some(Cc)}}
    \cup {[authorized |-> TRUE, status_code |-> 404, json |-> FALSE, valid |-> FALSE,
           Product |-> None]}

map_pack_list_to_import_items(pack_list) ==
    [n \in 1..Len(pack_list.PackListDetails) |->
        [quantity                   |-> pack_list.PackListDetails[n].Quantity,
         item_description           |-> pack_list.PackListDetails[n].DigiKeyPartNumber,
         is_description_placeholder |-> TRUE,
         digikey_order              |->
            Some(Order(None, pack_list.PackListDetails[n].Quantity,
                       pack_list.SalesorderId, pack_list.InvoiceId, None, None)),
         digikey_barcode_2d         |-> None,
         digikey_barcode_1d         |-> None,
         digikey_part_number        |-> Some(pack_list.PackListDetails[n].DigiKeyPartNumber),
         manufacturer_part_number   |-> None,
         manufacturer_name          |-> None,
         product_details            |-> None]]

\* The loop over the import items from item n on: obj_ids holds the ids of
\* the items imported so far, responses[n] is the vendor's answer for item n.
RECURSIVE ImportItemsLoop(_, _, _, _, _, _)
ImportItemsLoop(store, cfg, import_items, responses, n, obj_ids) ==
    IF n > Len(import_items)
    THEN StoreReturn([i \in 1..Len(obj_ids) |-> GetItem(store, obj_ids[i])[1]], store)
    ELSE LET r == new_item_importer(store, cfg, import_items[n], responses[n]) IN
         IF r.exc /= None
         THEN StoreRaise("HTTPException",
                         <<IF ExcType(r.exc) = "ManufacturerInfoMismatchError"
                           THEN 400 ELSE 500>>,
                         r.store)
         ELSE ImportItemsLoop(r.store, cfg, import_items, responses, n + 1,
                              Append(obj_ids, r.id[1]))

\* The handler that puts the collection back as it was when a line fails.
AddItemsRollsBack(store, cfg, pack_list, responses) ==
    LET r == ImportItemsLoop(store, cfg, map_pack_list_to_import_items(pack_list),
                             responses, 1, <<>>)
    IN  IF r.exc /= None THEN [r EXCEPT !.store = store] ELSE r

\* add_items_by_pack_list_barcode, from the pack list the barcode stands for.
add_items_by_pack_list_barcode(store, cfg, pack_list, responses) ==
    ImportItemsLoop(store, cfg, map_pack_list_to_import_items(pack_list),
                    responses, 1, <<>>)

AddItemsByPackListBarcode ==
    \E pack_list \in PackLists :
        \E responses \in [1..Len(pack_list.PackListDetails) -> LineResponses] :
            LET r == add_items_by_pack_list_barcode(items, config, pack_list, responses) IN
            /\ WithinBounds(r.store)
            /\ items' = r.store
            /\ last' = [op |-> "add_items_by_pack_list_barcode", exc |-> ExcType(r.exc),
                        result |-> ""]
            /\ UNCHANGED <<config, imported, calls, arg_a, arg_b, ret>>

NextPackList == AddItemsByPackListBarcode

SpecPackList == Init /\ [][NextPackList]_vars

\* The collection after the first n lines went through new_item_importer,
\* one after another.
RECURSIVE AfterLines(_, _, _, _, _)
AfterLines(store, cfg, import_items, responses, n) ==
    IF n = 0 THEN store
    ELSE new_item_importer(AfterLines(store, cfg, import_items, responses, n - 1),
                           cfg, import_items[n], responses[n]).store

\* The lines whose import fails after the lines before them were imported.
FailingLines(store, cfg, import_items, responses) ==
    {n \in 1..Len(import_items) :
        new_item_importer(AfterLines(store, cfg, import_items, responses, n - 1),
                          cfg, import_items[n], responses[n]).exc /= None}

\* C28: add_items_by_pack_list_barcode imports the lines in list order up to
\* the first line whose import fails: it then raises, and the collection is
\* the one the lines before that line left, with their quantities and
\* orders, the later lines not imported; with no failing line it returns
\* and all lines are imported.
C28_PackListStopsAtFirstFailure ==
    \A pack_list \in PackLists :
        \A responses \in [1..Len(pack_list.PackListDetails) -> LineResponses] :
            LET import_items == map_pack_list_to_import_items(pack_list)
                failing == FailingLines(items, config, import_items, responses)
                r == add_items_by_pack_list_barcode(items, config, pack_list, responses)
            IN  IF failing = {}
                THEN /\ r.exc = None
                     /\ r.store = AfterLines(items, config, import_items, responses,
                                             Len(import_items))
                ELSE /\ ExcType(r.exc) = "HTTPException"
                     /\ r.store = AfterLines(items, config, import_items, responses,
                                             MinOf(failing) - 1)

\* A pack list of invoice 1 whose first line, DK1, was imported and whose
\* second line, DK2, failed: DK1 is in stock with its order, DK2 is not.
C28_Witness ==
    /\ last.op = "add_items_by_pack_list_barcode"
    /\ last.exc = "HTTPException"
    /\ DOMAIN items = {1}
    /\ items[1].digikey_part_number = Some("DK1")
    /\ items[1].available_quantity = 1
    /\ Len(items[1].digikey_orders) = 1
    /\ items[1].digikey_orders[1].invoice_id = Some(1)

====
